---- MODULE Spec2Model ----
(***************************************************************************)
(* Model of the Bitcoin ingestion pipeline of multichain-indexer:          *)
(*   - the transfer extractor and the fee computation                      *)
(*     (internal/rpc/bitcoin/tx.go, fee computation file),                 *)
(*   - the worker pool of BitcoinIndexer.GetBlocksByNumbers                *)
(*     (internal/indexer/bitcoin.go),                                      *)
(*   - the prev-out enrichment fan-out Client.EnrichBlockWithPrevOuts,     *)
(*   - one failover attempt of BitcoinIndexer.GetBlock with the RPC facade *)
(*     (GetBlockHash, GetBlockWithPrevOut, GetBlockVerbose).               *)
(*                                                                         *)
(* BTC amounts are decimals in the code (decimal.NewFromFloat of the JSON  *)
(* number); here an amount is an integer count of the smallest unit, which *)
(* NewFromFloat and decimal.Add preserve exactly.                          *)
(***************************************************************************)
EXTENDS Integers, Sequences, FiniteSets, TLC

VARIABLES
    \* ---- transfer extractor / fee computation
    tx,          \* the transaction handed to ExtractTransfers / CalculateFee
    fee,         \* the fee argument of ExtractTransfers
    txPc,        \* ExtractTransfers: "idle" | "ready" | "done"
    transfers,   \* the slice returned by ExtractTransfers
    feePc,       \* CalculateFee: "idle" | "ready" | "done"
    calcFee,     \* the value returned by CalculateFee
    \* ---- GetBlocksByNumbers
    nums,        \* the heights asked for
    concurrency, \* b.config.Throttle.Concurrency
    ctxDone,     \* the context is cancelled
    mainPc,      \* the calling goroutine: "idle" | "call" | "wait" | "returned"
    blocks,      \* the shared result slice
    jobs,        \* the buffered job channel
    jobsClosed,  \* close(jobs) has run
    prodPc,      \* the producer goroutine: "idle" | "loop" | "done"
    prodI,       \* the producer's loop index (1-based)
    wpc,         \* per worker: "range" | "call" | "inflight" | "exit"
    wjob,        \* per worker: the job it holds
    ret,         \* what GetBlocksByNumbers returned
    handedBeforeCancel, \* history: slots received by a worker before the cancellation
    \* ---- EnrichBlockWithPrevOuts
    block,       \* the block enriched in place: [isNil, tx]
    enrPc,       \* the calling goroutine: "idle" | "call" | "spawn" | "returned"
    enrI,        \* the caller's loop index over block.Tx (1-based)
    semaphore,   \* number of tokens in the semaphore channel
    tpc,         \* per transaction: "none" | "acquire" | "rpc" | "done"
    tj,          \* per task: the vin whose getrawtransaction call is in flight
    enrRet,      \* what EnrichBlockWithPrevOuts returned
    lookupFailed, \* history: the <<tx, vin>> whose lookup failed
    \* ---- one attempt of GetBlock's fetch operation
    gbNumber,    \* the height asked for
    gbPc,        \* "idle" | "hash" | "v3" | "facadeV2" | "indexerV2" | "done"
    gbBlk,       \* the closure's blk: nil or the fetched block
    opRet,       \* the error the operation returned
    rpcLog,      \* history: the RPC calls issued, in order
    \* ---- the failover coordinator (ExecuteWithRetry)
    provState,   \* per provider: its health state
    cooldown,    \* per provider: ticks left before a blacklisted one is reinstated
    fpc,         \* per call: "idle" | "select" | "inflight" | "returned"
    fAttempts,   \* per call: invocations of the operation so far
    fProv,       \* per call: the provider of the current attempt
    fRet,        \* per call: the error ExecuteWithRetry returned
    \* ---- GetBlock
    gPc,         \* "idle" | "fetch" | "enrich" | "returned"
    gRet,        \* what GetBlock returned: [block, err]
    \* ---- processBlock applied to a fetched block
    pbBlk,       \* the decoded block handed to processBlock
    pbPc,        \* "idle" | "ready" | "done" | "again"
    pbOut,       \* the block returned by processBlock
    pbAgain,     \* the block returned when the same block is processed again
    \* ---- the context of EnrichBlockWithPrevOuts
    enrCtxDone,  \* ctx of the enrichment call is cancelled
    \* ---- GetBlocks
    gbsFrom,     \* the argument from
    gbsTo,       \* the argument to
    gbsPc,       \* "idle" | "call" | "loop" | "handed" | "error" | "panic"
    gbsCap,      \* the capacity handed to make
    gbsN,        \* the loop counter n
    gbsNums,     \* the slice nums under construction
    \* ---- the address codec
    adAddr,      \* the address string
    adTestnet,   \* the network flag isTestnet
    adValidPc,   \* IsValidAddress: "idle" | "ready" | "done"
    adValid,     \* what IsValidAddress returned
    adTypePc,    \* DetectAddressType: "idle" | "ready" | "done"
    adType       \* what DetectAddressType returned

txVars == <<tx, fee, txPc, transfers, feePc, calcFee>>

blocksVars == <<nums, concurrency, ctxDone, mainPc, blocks, jobs, jobsClosed,
                prodPc, prodI, wpc, wjob, ret, handedBeforeCancel>>

enrichVars == <<block, enrPc, enrI, semaphore, tpc, tj, enrRet, lookupFailed>>

attemptVars == <<gbNumber, gbPc, gbBlk, opRet, rpcLog>>

failoverVars == <<provState, cooldown, fpc, fAttempts, fProv, fRet>>

getBlockVars == <<gPc, gRet>>

processVars == <<pbBlk, pbPc, pbOut, pbAgain>>

rangeVars == <<gbsFrom, gbsTo, gbsPc, gbsCap, gbsN, gbsNums>>

addrVars == <<adAddr, adTestnet, adValidPc, adValid, adTypePc, adType>>

vars == <<txVars, blocksVars, enrichVars, attemptVars, failoverVars, getBlockVars,
          processVars, enrCtxDone, rangeVars, addrVars>>

(***************************************************************************)
(* Bounds of the transaction corpus.                                       *)
(***************************************************************************)
MaxVin == 2
MaxVout == 2

\* Sequences over S of length at most n.
SeqUpTo(S, n) == UNION {[1..k -> S] : k \in 0..n}

Range(s) == {s[i] : i \in DOMAIN s}

RECURSIVE SumSeq(_)
SumSeq(s) == IF s = <<>> THEN 0 ELSE Head(s) + SumSeq(Tail(s))

(***************************************************************************)
(* Data model (types.go).  A nil *PrevOut is the empty sequence, a non-nil *)
(* one a sequence of length 1.                                             *)
(***************************************************************************)
ScriptPubKey(address, addresses) == [address |-> address, addresses |-> addresses]

PrevOut(value, spk) == <<[value |-> value, scriptPubKey |-> spk]>>

NoPrevOut == <<>>

Vin(txid, vout, coinbase, prevOut) ==
    [txid |-> txid, vout |-> vout, coinbase |-> coinbase, prevOut |-> prevOut]

Vout(value, spk) == [value |-> value, scriptPubKey |-> spk]

Transaction(txid, vin, vout) == [txid |-> txid, vin |-> vin, vout |-> vout]

\* scriptPubKey forms met in blocks: no address (OP_RETURN), one address,
\* legacy multi-address, and an addresses list holding an empty entry.
SPKs ==
    { ScriptPubKey("", <<>>),
      ScriptPubKey("a", <<>>),
      ScriptPubKey("c", <<>>),
      ScriptPubKey("", <<"a", "b">>),
      ScriptPubKey("a", <<"">>) }

\* Values of the resolved inputs.
PrevValues == {1}

Vins ==
    { Vin("", 0, "cb", NoPrevOut), Vin("p", 0, "", NoPrevOut) }
        \cup { Vin("p", 0, "", PrevOut(v, spk)) : v \in PrevValues, spk \in SPKs }

\* Every scriptPubKey form with a positive value, and one zero-valued output.
Vouts == { Vout(1, spk) : spk \in SPKs } \cup { Vout(0, ScriptPubKey("a", <<>>)) }

Transactions ==
    { Transaction("t", vin, vout) :
        vin \in SeqUpTo(Vins, MaxVin), vout \in SeqUpTo(Vouts, MaxVout) }

\* Fee arguments: negative, zero, positive.
Fees == {0 - 1, 0, 1}

(***************************************************************************)
(* Address extraction and the transaction predicates.                      *)
(***************************************************************************)
ExtractAddresses(spk) ==
    (IF spk.address # "" THEN <<spk.address>> ELSE <<>>) \o spk.addresses

IsCoinbase(t) == Len(t.vin) > 0 /\ t.vin[1].coinbase # ""

HasPrevOutData(t) ==
    IF IsCoinbase(t) THEN FALSE
    ELSE \E i \in DOMAIN t.vin : t.vin[i].prevOut # NoPrevOut

\* Appends to acc the addresses of addrs not yet in acc (addressSet).
RECURSIVE AppendUnique(_, _)
AppendUnique(acc, addrs) ==
    IF addrs = <<>> THEN acc
    ELSE AppendUnique(IF Head(addrs) \in Range(acc) THEN acc
                      ELSE Append(acc, Head(addrs)),
                      Tail(addrs))

RECURSIVE InputAddressesFrom(_, _)
InputAddressesFrom(vins, acc) ==
    IF vins = <<>> THEN acc
    ELSE LET vin == Head(vins) IN
         InputAddressesFrom(Tail(vins),
            IF vin.coinbase # "" THEN acc
            ELSE IF vin.prevOut # NoPrevOut
                 THEN AppendUnique(acc, ExtractAddresses(vin.prevOut[1].scriptPubKey))
                 ELSE acc)

ExtractInputAddresses(t) == InputAddressesFrom(t.vin, <<>>)

(***************************************************************************)
(* Output grouping and totals.                                             *)
(***************************************************************************)
EmptyOutputs == [addr \in {} |-> 0]

AddOutputOverwriting(outputs, addr, value) ==
    [k \in DOMAIN outputs \cup {addr} |-> IF k = addr THEN value ELSE outputs[k]]

\* outputs[addr] = existing.Add(value), or value for a new key.
AddOutput(outputs, addr, value) ==
    IF addr \in DOMAIN outputs
    THEN [outputs EXCEPT ![addr] = @ + value]
    ELSE [k \in DOMAIN outputs \cup {addr} |->
            IF k = addr THEN value ELSE outputs[k]]

RECURSIVE AddOutputs(_, _, _)
AddOutputs(outputs, addrs, value) ==
    IF addrs = <<>> THEN outputs
    ELSE AddOutputs(AddOutput(outputs, Head(addrs), value), Tail(addrs), value)

RECURSIVE GroupOutputsFrom(_, _)
GroupOutputsFrom(vouts, outputs) ==
    IF vouts = <<>> THEN outputs
    ELSE LET vout == Head(vouts)
             addresses == ExtractAddresses(vout.scriptPubKey)
         IN  GroupOutputsFrom(Tail(vouts),
                IF vout.value <= 0 THEN outputs
                ELSE IF Len(addresses) = 0 THEN outputs
                ELSE AddOutputs(outputs, addresses, vout.value))

GroupOutputsByAddress(t) == GroupOutputsFrom(t.vout, EmptyOutputs)

RECURSIVE TotalOutputFrom(_)
TotalOutputFrom(vouts) ==
    IF vouts = <<>> THEN 0
    ELSE (IF Head(vouts).value > 0 THEN Head(vouts).value ELSE 0)
            + TotalOutputFrom(Tail(vouts))

CalculateTotalOutput(t) == TotalOutputFrom(t.vout)

RECURSIVE TotalInputFrom(_)
TotalInputFrom(vins) ==
    IF vins = <<>> THEN 0
    ELSE (IF Head(vins).prevOut # NoPrevOut /\ Head(vins).prevOut[1].value > 0
          THEN Head(vins).prevOut[1].value ELSE 0)
            + TotalInputFrom(Tail(vins))

CalculateTotalInput(t) == TotalInputFrom(t.vin)

CalculateFeeUnclamped(t) ==
    IF IsCoinbase(t) THEN 0
    ELSE IF ~HasPrevOutData(t) THEN 0
    ELSE CalculateTotalInput(t) - CalculateTotalOutput(t)

CalculateFee(t) ==
    IF IsCoinbase(t) THEN 0
    ELSE IF ~HasPrevOutData(t) THEN 0
    ELSE LET f == CalculateTotalInput(t) - CalculateTotalOutput(t)
         IN  IF f < 0 THEN 0 ELSE f

(***************************************************************************)
(* ExtractTransfers.                                                       *)
(***************************************************************************)
TxnTypeMining == "mining"
TxnTypeTransfer == "transfer"

NewTransfer(t, networkID, blockNum, timestamp, from, to, amount, type, txFee) ==
    [txHash |-> t.txid, networkId |-> networkID, blockNumber |-> blockNum,
     fromAddress |-> from, toAddress |-> to, assetAddress |-> "",
     amount |-> amount, type |-> type, txFee |-> txFee, timestamp |-> timestamp]

CoinbaseTransferWithFee(t, networkID, blockNum, timestamp, addr, value, f) ==
    NewTransfer(t, networkID, blockNum, timestamp,
                "coinbase", addr, value, TxnTypeMining, f)

\* Coinbase path: one mining transfer per extracted address of a vout.
CoinbaseTransfer(t, networkID, blockNum, timestamp, addr, value, f) ==
    NewTransfer(t, networkID, blockNum, timestamp,
                "coinbase", addr, value, TxnTypeMining, 0)

RECURSIVE CoinbaseOutputTransfers(_, _, _, _, _, _, _)
CoinbaseOutputTransfers(t, networkID, blockNum, timestamp, addrs, value, f) ==
    IF addrs = <<>> THEN <<>>
    ELSE <<CoinbaseTransfer(t, networkID, blockNum, timestamp, Head(addrs), value, f)>>
            \o CoinbaseOutputTransfers(t, networkID, blockNum, timestamp,
                                       Tail(addrs), value, f)

RECURSIVE CoinbaseTransfers(_, _, _, _, _, _)
CoinbaseTransfers(t, networkID, blockNum, timestamp, vouts, f) ==
    IF vouts = <<>> THEN <<>>
    ELSE LET vout == Head(vouts)
             addresses == ExtractAddresses(vout.scriptPubKey)
         IN (IF vout.value <= 0 THEN <<>>
          ELSE IF Len(addresses) = 0 THEN <<>>
          ELSE CoinbaseOutputTransfers(t, networkID, blockNum, timestamp,
                                          addresses, vout.value, f))
            \o CoinbaseTransfers(t, networkID, blockNum, timestamp, Tail(vouts), f)

IsChange(addr, inputAddresses) == addr \in Range(inputAddresses)

\* inputAddresses[0], or the composite "<first>+<N-1>_more".
FromAddr(inputAddresses) ==
    IF Len(inputAddresses) > 1
    THEN inputAddresses[1] \o "+" \o ToString(Len(inputAddresses) - 1) \o "_more"
    ELSE inputAddresses[1]

AssignsFeeToEveryNonChange(feeAssigned, isChange, f) == ~isChange /\ f # 0

\* if !feeAssigned && !isChange && !fee.IsZero()
AssignsFee(feeAssigned, isChange, f) == ~feeAssigned /\ ~isChange /\ f # 0

\* The loop over outputsByAddress when input addresses are known; order is the
\* order in which the range over the map yields its keys.
RECURSIVE RegularTransfers(_, _, _, _, _, _, _, _, _)
RegularTransfers(t, networkID, blockNum, timestamp, f, order, outputs, inputAddresses, feeAssigned) ==
    IF order = <<>> THEN <<>>
    ELSE LET addr == Head(order)
             isChange == IsChange(addr, inputAddresses)
             assign == AssignsFee(feeAssigned, isChange, f)
             tr == NewTransfer(t, networkID, blockNum, timestamp,
                               FromAddr(inputAddresses), addr, outputs[addr],
                               TxnTypeTransfer, IF assign THEN f ELSE 0)
         IN  <<tr>> \o RegularTransfers(t, networkID, blockNum, timestamp, f,
                                        Tail(order), outputs, inputAddresses,
                                        feeAssigned \/ assign)

\* The fallback loop when no input address is known.
RECURSIVE FallbackTransfers(_, _, _, _, _, _, _, _)
FallbackTransfers(t, networkID, blockNum, timestamp, f, order, outputs, feeAssigned) ==
    IF order = <<>> THEN <<>>
    ELSE LET addr == Head(order)
             assign == AssignsFee(feeAssigned, FALSE, f)
             tr == NewTransfer(t, networkID, blockNum, timestamp,
                               "", addr, outputs[addr],
                               TxnTypeTransfer, IF assign THEN f ELSE 0)
         IN  <<tr>> \o FallbackTransfers(t, networkID, blockNum, timestamp, f,
                                         Tail(order), outputs,
                                         feeAssigned \/ assign)

\* The orders in which a range over a Go map may yield the keys of m.
IterationOrders(m) ==
    LET n == Cardinality(DOMAIN m) IN
    { o \in [1..n -> DOMAIN m] : \A i, j \in 1..n : i # j => o[i] # o[j] }

ExtractTransfers(t, networkID, blockNum, timestamp, f, order) ==
    IF IsCoinbase(t)
    THEN CoinbaseTransfers(t, networkID, blockNum, timestamp, t.vout, f)
    ELSE LET inputAddresses == ExtractInputAddresses(t)
             outputsByAddress == GroupOutputsByAddress(t)
         IN  IF Len(inputAddresses) > 0
          THEN RegularTransfers(t, networkID, blockNum, timestamp, f, order,
                                   outputsByAddress, inputAddresses, FALSE)
          ELSE FallbackTransfers(t, networkID, blockNum, timestamp, f, order,
                                    outputsByAddress, FALSE)

(***************************************************************************)
(* Specification of the pure functions: a transaction and a fee are drawn  *)
(* from the corpus, then ExtractTransfers and CalculateFee are applied.    *)
(***************************************************************************)
TxInit ==
    /\ tx \in Transactions
    /\ fee \in Fees
    /\ txPc = "ready"
    /\ transfers = <<>>
    /\ feePc = "ready"
    /\ calcFee = 0

TxIdle ==
    /\ tx = Transaction("", <<>>, <<>>)
    /\ fee = 0
    /\ txPc = "idle"
    /\ transfers = <<>>
    /\ feePc = "idle"
    /\ calcFee = 0

DoExtractTransfers ==
    /\ txPc = "ready"
    /\ \E order \in IterationOrders(GroupOutputsByAddress(tx)) :
          transfers' = ExtractTransfers(tx, "btc", 1, 1, fee, order)
    /\ txPc' = "done"
    /\ UNCHANGED <<tx, fee, feePc, calcFee>>

DoCalculateFee ==
    /\ feePc = "ready"
    /\ calcFee' = CalculateFee(tx)
    /\ feePc' = "done"
    /\ UNCHANGED <<tx, fee, txPc, transfers>>

(***************************************************************************)
(* BitcoinIndexer.GetBlocksByNumbers: a producer goroutine feeds a         *)
(* buffered channel of jobs, worker goroutines take jobs, call GetBlock    *)
(* and write the result into the slot of the job; the caller waits for the *)
(* workers (wg.Wait), then looks at the context and at the slots.          *)
(* GetBlock is seen here by its result only: a block or an error.          *)
(***************************************************************************)
MaxNums == 3

\* The requests: k heights in descending order, k up to MaxNums.
Requests == { [i \in 1..k |-> k - i] : k \in 0..MaxNums }

Concurrencies == {0, 1, 2}

NilBlock == <<>>
NilError == <<>>

BlockResult(number, blk, error) ==
    [Number |-> number, Block |-> blk, Error |-> error]

ZeroBlockResult == BlockResult(0, NilBlock, NilError)

Job(num, index) == [num |-> num, index |-> index]

NoJob == Job(0, 0)

NilErr == "nil"
CtxErr == "context canceled"

WorkerCountUncapped(n, c) == n

\* workers := len(nums), capped by Throttle.Concurrency when that is positive.
WorkerCount(n, c) == IF c > 0 /\ n > c THEN c ELSE n

\* jobs := make(chan job, workers*2)
JobsCap(workers) == workers * 2

Workers == DOMAIN wpc

\* What one GetBlock call returns: (block, nil) or (nil, err).
GetBlockOutcomes == {"ok", "err"}

GetBlockResult(num, outcome) ==
    IF outcome = "ok"
    THEN [blk |-> <<[Number |-> num]>>, err |-> NilErr]
    ELSE [blk |-> NilBlock, err |-> "fetch failed"]

StoreResultInCompletionOrder(bs, j, r) ==
    LET free == { i \in DOMAIN bs : bs[i] = ZeroBlockResult }
        slot == IF free = {} THEN j.index
                ELSE CHOOSE i \in free : \A k \in free : i <= k
    IN  [bs EXCEPT ![slot] =
            BlockResult(j.num, r.blk,
                        IF r.err # NilErr
                        THEN <<[ErrorType |-> "unknown", Message |-> r.err]>>
                        ELSE NilError)]

\* blocks[j.index] = BlockResult{Number: j.num, Block: blk}, and its Error
\* when GetBlock failed.
StoreResult(bs, j, r) ==
    [bs EXCEPT ![j.index] =
        BlockResult(j.num, r.blk,
                    IF r.err # NilErr
                    THEN <<[ErrorType |-> "unknown", Message |-> r.err]>>
                    ELSE NilError)]

RECURSIVE LastErr(_)
LastErr(bs) ==
    IF bs = <<>> THEN NilErr
    ELSE IF LastErr(Tail(bs)) # NilErr THEN LastErr(Tail(bs))
         ELSE IF Head(bs).Error # NilError
              THEN "block " \o ToString(Head(bs).Number) \o ": " \o Head(bs).Error[1].Message
              ELSE NilErr

\* The error of the first slot that holds one, "nil" when none does.
RECURSIVE FirstErr(_)
FirstErr(bs) ==
    IF bs = <<>> THEN NilErr
    ELSE IF Head(bs).Error # NilError
         THEN "block " \o ToString(Head(bs).Number) \o ": " \o Head(bs).Error[1].Message
         ELSE FirstErr(Tail(bs))

BlocksInit ==
    /\ nums \in Requests
    /\ concurrency \in Concurrencies
    /\ ctxDone = FALSE
    /\ mainPc = "call"
    /\ blocks = <<>>
    /\ jobs = <<>>
    /\ jobsClosed = FALSE
    /\ prodPc = "idle"
    /\ prodI = 1
    /\ wpc = <<>>
    /\ wjob = <<>>
    /\ ret = [blocks |-> <<>>, err |-> NilErr]
    /\ handedBeforeCancel = {}

BlocksIdle ==
    /\ nums = <<>>
    /\ concurrency = 0
    /\ ctxDone = FALSE
    /\ mainPc = "idle"
    /\ blocks = <<>>
    /\ jobs = <<>>
    /\ jobsClosed = FALSE
    /\ prodPc = "idle"
    /\ prodI = 1
    /\ wpc = <<>>
    /\ wjob = <<>>
    /\ ret = [blocks |-> <<>>, err |-> NilErr]
    /\ handedBeforeCancel = {}

\* The call up to wg.Wait: the empty request returns at once; otherwise the
\* result slice is made and the workers and the producer are started.
GetBlocksByNumbersStart ==
    /\ mainPc = "call"
    /\ IF Len(nums) = 0
       THEN /\ mainPc' = "returned"
            /\ ret' = [blocks |-> <<>>, err |-> NilErr]
            /\ UNCHANGED <<blocks, wpc, wjob, prodPc>>
       ELSE /\ mainPc' = "wait"
            /\ blocks' = [i \in 1..Len(nums) |-> ZeroBlockResult]
            /\ wpc' = [w \in 1..WorkerCount(Len(nums), concurrency) |-> "range"]
            /\ wjob' = [w \in 1..WorkerCount(Len(nums), concurrency) |-> NoJob]
            /\ prodPc' = "loop"
            /\ UNCHANGED ret
    /\ UNCHANGED <<nums, concurrency, ctxDone, jobs, jobsClosed, prodI,
                   handedBeforeCancel>>

\* select case jobs <- job{num: n, index: i}: ready when the buffer has room,
\* whether or not the context is cancelled.
ProducerSend ==
    /\ prodPc = "loop"
    /\ prodI <= Len(nums)
    /\ Len(jobs) < JobsCap(Cardinality(Workers))
    /\ jobs' = Append(jobs, Job(nums[prodI], prodI))
    /\ prodI' = prodI + 1
    /\ UNCHANGED <<nums, concurrency, ctxDone, mainPc, blocks, jobsClosed,
                   prodPc, wpc, wjob, ret, handedBeforeCancel>>

ProducerCancelNoClose ==
    /\ prodPc = "loop"
    /\ prodI <= Len(nums)
    /\ ctxDone
    /\ prodPc' = "done"
    /\ UNCHANGED <<nums, concurrency, ctxDone, mainPc, blocks, jobs, jobsClosed,
                   prodI, wpc, wjob, ret, handedBeforeCancel>>

\* select case <-ctx.Done(): return, which runs the deferred close(jobs).
ProducerCancel ==
    /\ prodPc = "loop"
    /\ prodI <= Len(nums)
    /\ ctxDone
    /\ prodPc' = "done"
    /\ jobsClosed' = TRUE
    /\ UNCHANGED <<nums, concurrency, ctxDone, mainPc, blocks, jobs,
                   prodI, wpc, wjob, ret, handedBeforeCancel>>

\* The loop over nums is over: the deferred close(jobs) runs.
ProducerDone ==
    /\ prodPc = "loop"
    /\ prodI > Len(nums)
    /\ prodPc' = "done"
    /\ jobsClosed' = TRUE
    /\ UNCHANGED <<nums, concurrency, ctxDone, mainPc, blocks, jobs,
                   prodI, wpc, wjob, ret, handedBeforeCancel>>

\* for j := range jobs, with the job left in the channel.
WorkerRecvPeeking(w) ==
    /\ wpc[w] = "range"
    /\ jobs # <<>>
    /\ wjob' = [wjob EXCEPT ![w] = Head(jobs)]
    /\ jobs' = jobs
    /\ wpc' = [wpc EXCEPT ![w] = "call"]
    /\ handedBeforeCancel' = IF ctxDone THEN handedBeforeCancel
                             ELSE handedBeforeCancel \cup {Head(jobs).index}
    /\ UNCHANGED <<nums, concurrency, ctxDone, mainPc, blocks, jobsClosed,
                   prodPc, prodI, ret>>

\* for j := range jobs: a job is received.
WorkerRecv(w) ==
    /\ wpc[w] = "range"
    /\ jobs # <<>>
    /\ wjob' = [wjob EXCEPT ![w] = Head(jobs)]
    /\ jobs' = Tail(jobs)
    /\ wpc' = [wpc EXCEPT ![w] = "call"]
    /\ handedBeforeCancel' = IF ctxDone THEN handedBeforeCancel
                             ELSE handedBeforeCancel \cup {Head(jobs).index}
    /\ UNCHANGED <<nums, concurrency, ctxDone, mainPc, blocks, jobsClosed,
                   prodPc, prodI, ret>>

\* for j := range jobs: the channel is closed and drained; wg.Done runs.
WorkerExit(w) ==
    /\ wpc[w] = "range"
    /\ jobs = <<>>
    /\ jobsClosed
    /\ wpc' = [wpc EXCEPT ![w] = "exit"]
    /\ UNCHANGED <<nums, concurrency, ctxDone, mainPc, blocks, jobs, jobsClosed,
                   prodPc, prodI, wjob, ret, handedBeforeCancel>>

\* b.GetBlock(ctx, j.num) is called.
WorkerCall(w) ==
    /\ wpc[w] = "call"
    /\ wpc' = [wpc EXCEPT ![w] = "inflight"]
    /\ UNCHANGED <<nums, concurrency, ctxDone, mainPc, blocks, jobs, jobsClosed,
                   prodPc, prodI, wjob, ret, handedBeforeCancel>>

\* GetBlock returns and the worker writes the slot of its job.
WorkerStore(w) ==
    /\ wpc[w] = "inflight"
    /\ \E outcome \in GetBlockOutcomes :
          blocks' = StoreResult(blocks, wjob[w], GetBlockResult(wjob[w].num, outcome))
    /\ wpc' = [wpc EXCEPT ![w] = "range"]
    /\ UNCHANGED <<nums, concurrency, ctxDone, mainPc, jobs, jobsClosed,
                   prodPc, prodI, wjob, ret, handedBeforeCancel>>

\* wg.Wait returns once every worker has run wg.Done; then ctx.Err() decides.
GetBlocksByNumbersReturn ==
    /\ mainPc = "wait"
    /\ \A w \in Workers : wpc[w] = "exit"
    /\ mainPc' = "returned"
    /\ ret' = IF ctxDone
              THEN [blocks |-> <<>>, err |-> CtxErr]
              ELSE [blocks |-> blocks, err |-> FirstErr(blocks)]
    /\ UNCHANGED <<nums, concurrency, ctxDone, blocks, jobs, jobsClosed,
                   prodPc, prodI, wpc, wjob, handedBeforeCancel>>

\* The caller's context is cancelled.
Cancel ==
    /\ mainPc \in {"call", "wait"}
    /\ ~ctxDone
    /\ ctxDone' = TRUE
    /\ UNCHANGED <<nums, concurrency, mainPc, blocks, jobs, jobsClosed,
                   prodPc, prodI, wpc, wjob, ret, handedBeforeCancel>>

\* The steps of the goroutines of one call.
BlocksProgress ==
    \/ GetBlocksByNumbersStart
    \/ ProducerSend
    \/ ProducerCancel
    \/ ProducerDone
    \/ \E w \in Workers : WorkerRecv(w)
    \/ \E w \in Workers : WorkerExit(w)
    \/ \E w \in Workers : WorkerCall(w)
    \/ \E w \in Workers : WorkerStore(w)
    \/ GetBlocksByNumbersReturn

(***************************************************************************)
(* Client.EnrichBlockWithPrevOuts: the caller starts one goroutine per     *)
(* non-coinbase transaction without prevout data; a task takes a token of  *)
(* the semaphore, looks up the previous transaction of each of its vins    *)
(* and releases the token; the caller waits for all tasks (wg.Wait).       *)
(* A task step runs from one blocking point (the semaphore send, the RPC   *)
(* call) to the next.                                                      *)
(***************************************************************************)
\* semaphore := make(chan struct{}, 10)
SemaphoreCap == 10

SpendVin(txid, vout) == Vin(txid, vout, "", NoPrevOut)

CoinbaseVin == Vin("", 0, "cb", NoPrevOut)

\* A block as decoded from getblock: the header fields processBlock reads,
\* and the transactions.
Block(txs) == [isNil |-> FALSE, height |-> 1, hash |-> "h", time |-> 1, tx |-> txs]

NilBlockPtr == [isNil |-> TRUE, height |-> 0, hash |-> "", time |-> 0, tx |-> <<>>]

\* A block with one more one-input spend than the semaphore has tokens.
WideBlock ==
    Block([i \in 1..(SemaphoreCap + 1) |->
              Transaction("w", <<SpendVin("p", 0)>>, <<>>)])

\* A coinbase, a spend of two outputs (the second index past the previous
\* transaction's outputs), a spend that already has prevout data, and a spend
\* with an empty txid and a coinbase entry among its vins.
MixedBlock ==
    Block(<< Transaction("m0", <<CoinbaseVin>>, <<>>),
             Transaction("m1", <<SpendVin("q", 0), SpendVin("q", 1)>>, <<>>),
             Transaction("m2", <<Vin("p", 0, "", PrevOut(1, ScriptPubKey("c", <<>>))),
                                 SpendVin("q", 0)>>, <<>>),
             Transaction("m3", <<SpendVin("", 0), CoinbaseVin, SpendVin("p", 0)>>, <<>>) >>)

EnrichBlocks == {NilBlockPtr, Block(<<>>), WideBlock, MixedBlock}

\* What the node answers to getrawtransaction(txid, 1): the previous
\* transaction (one output), or an error.  The lookup of "p" succeeds; any
\* other lookup may fail.
PrevTx(txid) == Transaction(txid, <<>>, <<Vout(2, ScriptPubKey("a", <<>>))>>)

GetRawTransactionOutcomes(txid) ==
    IF txid = "p" THEN {"ok"} ELSE {"ok", "err"}

\* if vin.Txid == "" || vin.Coinbase != "" { continue }
NeedsLookup(vin) == ~(vin.txid = "" \/ vin.coinbase # "")

\* The first vin at or after j that is looked up, Len + 1 when there is none.
RECURSIVE NextLookup(_, _)
NextLookup(vins, j) ==
    IF j > Len(vins) THEN j
    ELSE IF NeedsLookup(vins[j]) THEN j
    ELSE NextLookup(vins, j + 1)

\* if int(vin.Vout) < len(prevTx.Vout) { vin.PrevOut = &PrevOut{...} }
WithPrevOut(vin, prevTx) ==
    IF vin.vout < Len(prevTx.vout)
    THEN [vin EXCEPT !.prevOut = PrevOut(prevTx.vout[vin.vout + 1].value,
                                         prevTx.vout[vin.vout + 1].scriptPubKey)]
    ELSE vin

Tasks == DOMAIN tpc

InFlightCalls == Cardinality({i \in Tasks : tpc[i] = "rpc"})

EnrichInit ==
    /\ block \in EnrichBlocks
    /\ enrPc = "call"
    /\ enrI = 1
    /\ semaphore = 0
    /\ tpc = [i \in DOMAIN block.tx |-> "none"]
    /\ tj = [i \in DOMAIN block.tx |-> 0]
    /\ enrRet = "none"
    /\ lookupFailed = {}

EnrichIdle ==
    /\ block = NilBlockPtr
    /\ enrPc = "idle"
    /\ enrI = 1
    /\ semaphore = 0
    /\ tpc = <<>>
    /\ tj = <<>>
    /\ enrRet = "none"
    /\ lookupFailed = {}

\* if block == nil { return error }; otherwise the loop over block.Tx starts.
EnrichStart ==
    /\ enrPc = "call"
    /\ IF block.isNil
       THEN enrPc' = "returned" /\ enrRet' = "block is nil"
       ELSE enrPc' = "spawn" /\ enrRet' = enrRet
    /\ UNCHANGED <<block, enrI, semaphore, tpc, tj, lookupFailed>>

EnrichSpawnAllSpends ==
    /\ enrPc = "spawn"
    /\ enrI <= Len(block.tx)
    /\ tpc' = IF IsCoinbase(block.tx[enrI])
              THEN tpc
              ELSE [tpc EXCEPT ![enrI] = "acquire"]
    /\ enrI' = enrI + 1
    /\ UNCHANGED <<block, enrPc, semaphore, tj, enrRet, lookupFailed>>

\* One iteration of the loop over block.Tx: coinbase transactions and
\* transactions with prevout data are skipped, a goroutine is started for
\* any other (wg.Add(1); go func ...).
EnrichSpawn ==
    /\ enrPc = "spawn"
    /\ enrI <= Len(block.tx)
    /\ tpc' = IF IsCoinbase(block.tx[enrI]) \/ HasPrevOutData(block.tx[enrI])
              THEN tpc
              ELSE [tpc EXCEPT ![enrI] = "acquire"]
    /\ enrI' = enrI + 1
    /\ UNCHANGED <<block, enrPc, semaphore, tj, enrRet, lookupFailed>>

TaskAcquireUnbounded(i) ==
    /\ tpc[i] = "acquire"
    /\ LET k == NextLookup(block.tx[i].vin, 1) IN
       IF k <= Len(block.tx[i].vin)
       THEN /\ semaphore' = semaphore + 1
            /\ tpc' = [tpc EXCEPT ![i] = "rpc"]
            /\ tj' = [tj EXCEPT ![i] = k]
       ELSE /\ semaphore' = semaphore
            /\ tpc' = [tpc EXCEPT ![i] = "done"]
            /\ tj' = tj
    /\ UNCHANGED <<block, enrPc, enrI, enrRet, lookupFailed>>

\* semaphore <- struct{}{}: the send goes through when the channel has room.
\* The task then runs to its first getrawtransaction call; with no vin to
\* look up it returns, which releases the token and runs wg.Done.
TaskAcquire(i) ==
    /\ tpc[i] = "acquire"
    /\ semaphore < SemaphoreCap
    /\ LET k == NextLookup(block.tx[i].vin, 1) IN
       IF k <= Len(block.tx[i].vin)
       THEN /\ semaphore' = semaphore + 1
            /\ tpc' = [tpc EXCEPT ![i] = "rpc"]
            /\ tj' = [tj EXCEPT ![i] = k]
       ELSE /\ semaphore' = semaphore
            /\ tpc' = [tpc EXCEPT ![i] = "done"]
            /\ tj' = tj
    /\ UNCHANGED <<block, enrPc, enrI, enrRet, lookupFailed>>

TaskRpcReturnLastTransaction(i) ==
    /\ tpc[i] = "rpc"
    /\ LET vin == block.tx[i].vin[tj[i]]
           k == NextLookup(block.tx[i].vin, tj[i] + 1)
       IN  /\ \E outcome \in GetRawTransactionOutcomes(vin.txid) :
                 LET new == IF outcome = "err" THEN vin
                            ELSE WithPrevOut(vin, PrevTx(vin.txid))
                 IN  /\ block' = [block EXCEPT !.tx[Len(block.tx)].vin[tj[i]] = new]
                     /\ lookupFailed' = IF new.prevOut = NoPrevOut
                                        THEN lookupFailed \cup {<<i, tj[i]>>}
                                        ELSE lookupFailed
           /\ IF k <= Len(block.tx[i].vin)
              THEN /\ tj' = [tj EXCEPT ![i] = k]
                   /\ UNCHANGED <<tpc, semaphore>>
              ELSE /\ tpc' = [tpc EXCEPT ![i] = "done"]
                   /\ semaphore' = semaphore - 1
                   /\ tj' = tj
    /\ UNCHANGED <<enrPc, enrI, enrRet>>

TaskRpcReturnAbortOnError(i) ==
    /\ tpc[i] = "rpc"
    /\ LET vin == block.tx[i].vin[tj[i]]
           k == NextLookup(block.tx[i].vin, tj[i] + 1)
       IN  \E outcome \in GetRawTransactionOutcomes(vin.txid) :
              LET new == IF outcome = "err" THEN vin
                         ELSE WithPrevOut(vin, PrevTx(vin.txid))
              IN  /\ block' = [block EXCEPT !.tx[i].vin[tj[i]] = new]
                  /\ lookupFailed' = IF new.prevOut = NoPrevOut
                                     THEN lookupFailed \cup {<<i, tj[i]>>}
                                     ELSE lookupFailed
                  /\ IF k <= Len(block.tx[i].vin) /\ new.prevOut # NoPrevOut
                     THEN /\ tj' = [tj EXCEPT ![i] = k]
                          /\ UNCHANGED <<tpc, semaphore>>
                     ELSE /\ tpc' = [tpc EXCEPT ![i] = "done"]
                          /\ semaphore' = semaphore - 1
                          /\ tj' = tj
    /\ UNCHANGED <<enrPc, enrI, enrRet>>

\* GetRawTransaction returns: on an error the vin is left alone, otherwise
\* prevOut is set when the index is among the outputs.  The task then runs
\* to its next call, or returns (token released, wg.Done).
TaskRpcReturn(i) ==
    /\ tpc[i] = "rpc"
    /\ LET vin == block.tx[i].vin[tj[i]]
           k == NextLookup(block.tx[i].vin, tj[i] + 1)
       IN  /\ \E outcome \in GetRawTransactionOutcomes(vin.txid) :
                 LET new == IF outcome = "err" THEN vin
                            ELSE WithPrevOut(vin, PrevTx(vin.txid))
                 IN  /\ block' = [block EXCEPT !.tx[i].vin[tj[i]] = new]
                     /\ lookupFailed' = IF new.prevOut = NoPrevOut
                                        THEN lookupFailed \cup {<<i, tj[i]>>}
                                        ELSE lookupFailed
           /\ IF k <= Len(block.tx[i].vin)
              THEN /\ tj' = [tj EXCEPT ![i] = k]
                   /\ UNCHANGED <<tpc, semaphore>>
              ELSE /\ tpc' = [tpc EXCEPT ![i] = "done"]
                   /\ semaphore' = semaphore - 1
                   /\ tj' = tj
    /\ UNCHANGED <<enrPc, enrI, enrRet>>

EnrichReturnWithoutWait ==
    /\ enrPc = "spawn"
    /\ enrI > Len(block.tx)
    /\ enrPc' = "returned"
    /\ enrRet' = "nil"
    /\ UNCHANGED <<block, enrI, semaphore, tpc, tj, lookupFailed>>

\* wg.Wait() returns once every started task has run wg.Done; return nil.
EnrichReturn ==
    /\ enrPc = "spawn"
    /\ enrI > Len(block.tx)
    /\ \A i \in Tasks : tpc[i] \in {"none", "done"}
    /\ enrPc' = "returned"
    /\ enrRet' = "nil"
    /\ UNCHANGED <<block, enrI, semaphore, tpc, tj, lookupFailed>>

(***************************************************************************)
(* One attempt of the fetch operation that BitcoinIndexer.GetBlock hands   *)
(* to the failover: GetBlockHash, then GetBlockWithPrevOut, then           *)
(* GetBlockVerbose, through the RPC facade of Client.                      *)
(***************************************************************************)
AttemptHeights == {0, 1, 2}

\* How one CallRPC and the decoding of its result end.
RpcOutcomes == {"ok", "rpcError", "transportError", "decodeError"}

\* CallRPC itself failed (the result was never decoded).
CallFailed(outcome) == outcome \in {"rpcError", "transportError"}

NoError == [kind |-> "nil", call |-> 0]

\* The error of the call logged at position call.
ErrorOf(outcome, call) == [kind |-> outcome, call |-> call]

\* A logged call: the RPC method, the getblock verbosity, the facade method
\* the operation called, and how the call ended.
RpcCall(method, verbosity, via, outcome) ==
    [method |-> method, verbosity |-> verbosity, via |-> via,
     outcome |-> outcome]

\* The blocks the node serves: with prevout data at verbosity 3, without at 2.
NodeBlock(verbosity) ==
    Block(<< Transaction("cb", <<CoinbaseVin>>, <<Vout(1, ScriptPubKey("a", <<>>))>>),
             Transaction("s",
                <<IF verbosity = 3
                  THEN Vin("q", 0, "", PrevOut(2, ScriptPubKey("a", <<>>)))
                  ELSE SpendVin("q", 0)>>,
                <<Vout(1, ScriptPubKey("a", <<>>))>>) >>)

AttemptInit ==
    /\ gbNumber \in AttemptHeights
    /\ gbPc = "hash"
    /\ gbBlk = <<>>
    /\ opRet = NoError
    /\ rpcLog = <<>>

AttemptIdle ==
    /\ gbNumber = 0
    /\ gbPc = "idle"
    /\ gbBlk = <<>>
    /\ opRet = NoError
    /\ rpcLog = <<>>

\* hash, err := c.GetBlockHash(ctx, number); if err != nil { return err }
OpGetBlockHash ==
    /\ gbPc = "hash"
    /\ \E outcome \in RpcOutcomes :
       /\ rpcLog' = Append(rpcLog,
                           RpcCall("getblockhash", 0, "GetBlockHash", outcome))
       /\ IF outcome = "ok"
          THEN gbPc' = "v3" /\ opRet' = opRet
          ELSE gbPc' = "done" /\ opRet' = ErrorOf(outcome, Len(rpcLog) + 1)
    /\ UNCHANGED <<gbNumber, gbBlk>>

\* c.GetBlockWithPrevOut(ctx, hash): getblock at verbosity 3.  When CallRPC
\* fails the facade goes on to GetBlockVerbose; a result that does not decode
\* is returned as an error, and the operation goes on to its own fallback.
OpGetBlockWithPrevOut ==
    /\ gbPc = "v3"
    /\ \E outcome \in RpcOutcomes :
       /\ rpcLog' = Append(rpcLog,
                           RpcCall("getblock", 3, "GetBlockWithPrevOut", outcome))
       /\ IF outcome = "ok"
          THEN gbPc' = "done" /\ gbBlk' = <<NodeBlock(3)>> /\ opRet' = NoError
          ELSE /\ gbPc' = IF CallFailed(outcome) THEN "facadeV2" ELSE "indexerV2"
               /\ UNCHANGED <<gbBlk, opRet>>
    /\ UNCHANGED gbNumber

FacadeFallbackDropsBlock ==
    /\ gbPc = "facadeV2"
    /\ \E outcome \in RpcOutcomes :
       /\ rpcLog' = Append(rpcLog,
                           RpcCall("getblock", 2, "GetBlockWithPrevOut", outcome))
       /\ IF outcome = "ok"
          THEN gbPc' = "done" /\ gbBlk' = gbBlk /\ opRet' = ErrorOf("rpcError", 2)
          ELSE gbPc' = "indexerV2" /\ UNCHANGED <<gbBlk, opRet>>
    /\ UNCHANGED gbNumber

\* return c.GetBlockVerbose(ctx, hash) inside GetBlockWithPrevOut: getblock at
\* verbosity 2.  Its block is the block of the operation (blk = bb; return
\* nil); its error sends the operation to its own fallback.
FacadeFallbackVerbose ==
    /\ gbPc = "facadeV2"
    /\ \E outcome \in RpcOutcomes :
       /\ rpcLog' = Append(rpcLog,
                           RpcCall("getblock", 2, "GetBlockWithPrevOut", outcome))
       /\ IF outcome = "ok"
          THEN gbPc' = "done" /\ gbBlk' = <<NodeBlock(2)>> /\ opRet' = NoError
          ELSE gbPc' = "indexerV2" /\ UNCHANGED <<gbBlk, opRet>>
    /\ UNCHANGED gbNumber

\* bb, err = c.GetBlockVerbose(ctx, hash); if err == nil { blk = bb };
\* return err
OpGetBlockVerbose ==
    /\ gbPc = "indexerV2"
    /\ \E outcome \in RpcOutcomes :
       /\ rpcLog' = Append(rpcLog,
                           RpcCall("getblock", 2, "GetBlockVerbose", outcome))
       /\ IF outcome = "ok"
          THEN gbBlk' = <<NodeBlock(2)>> /\ opRet' = NoError
          ELSE gbBlk' = gbBlk /\ opRet' = ErrorOf(outcome, Len(rpcLog) + 1)
    /\ gbPc' = "done"
    /\ UNCHANGED gbNumber

(***************************************************************************)
(* The failover coordinator: ExecuteWithRetry selects a provider that is   *)
(* not blacklisted, invokes the operation on it, classifies the outcome    *)
(* and updates the provider's health; at most MaxRetries + 1 invocations.  *)
(* Several calls run concurrently over one health table.  A blacklisted    *)
(* provider is reinstated at unhealthy when its cooldown has elapsed.      *)
(***************************************************************************)
StateHealthy == "healthy"
StateDegraded == "degraded"
StateUnhealthy == "unhealthy"
StateBlacklisted == "blacklisted"

ProviderStates == {StateHealthy, StateDegraded, StateUnhealthy, StateBlacklisted}

Providers == {"p1", "p2"}

NoProvider == "none"

\* client.maxRetries of the chain configuration.
MaxRetries == 1

\* Length of the blacklist cooldown, in ticks of the clock.
CooldownTicks == 2

\* The health tables the coordinator can hold: a cooldown runs exactly for
\* the blacklisted providers.
HealthTables ==
    { t \in [Providers -> [state : ProviderStates, cooldown : 0..CooldownTicks]] :
        \A p \in Providers :
            (t[p].state = StateBlacklisted) <=> (t[p].cooldown > 0) }

\* The errors an abstract operation returns.
OpErrors ==
    {NoError} \cup
    { ErrorOf(kind, 0) : kind \in {"rpcError", "transportError", "decodeError",
                                   "contextError", "rpcOtherError"} }

NoProviderError == ErrorOf("noProviderError", 0)

\* How ExecuteWithRetry classifies what the operation returned: a success, a
\* provider fault (transport error, RPC error of another code), an outcome
\* that is not a provider fault (method not found / not supported, the
\* caller's context), or a decode error.
Classify(err) ==
    CASE err.kind = "nil" -> "success"
      [] err.kind \in {"transportError", "rpcOtherError"} -> "fault"
      [] err.kind \in {"rpcError", "contextError"} -> "notAFault"
      [] OTHER -> "decode"

\* healthy -> degraded -> unhealthy -> blacklisted
Penalize(state) ==
    CASE state = StateHealthy -> StateDegraded
      [] state = StateDegraded -> StateUnhealthy
      [] OTHER -> StateBlacklisted

\* success -> mark provider healthy, whatever its state was.
MarkHealthy(state) == StateHealthy

\* The providers an attempt may select: never a blacklisted one.
Selectable == { p \in Providers : provState[p] # StateBlacklisted }

Calls == DOMAIN fpc

FailoverInit ==
    /\ \E t \in HealthTables :
          /\ provState = [p \in Providers |-> t[p].state]
          /\ cooldown = [p \in Providers |-> t[p].cooldown]
    /\ fpc = [c \in {"c1", "c2"} |-> "idle"]
    /\ fAttempts = [c \in {"c1", "c2"} |-> 0]
    /\ fProv = [c \in {"c1", "c2"} |-> NoProvider]
    /\ fRet = [c \in {"c1", "c2"} |-> NoError]

FailoverIdle ==
    /\ provState = [p \in Providers |-> StateHealthy]
    /\ cooldown = [p \in Providers |-> 0]
    /\ fpc = <<>>
    /\ fAttempts = <<>>
    /\ fProv = <<>>
    /\ fRet = <<>>

\* ExecuteWithRetry(ctx, op) is entered.
EwrCall(c) ==
    /\ fpc[c] = "idle"
    /\ fpc' = [fpc EXCEPT ![c] = "select"]
    /\ fAttempts' = [fAttempts EXCEPT ![c] = 0]
    /\ UNCHANGED <<provState, cooldown, fProv, fRet>>

\* A provider is selected and op(client) is invoked on it; with every
\* provider blacklisted the call returns an error.
EwrSelect(c) ==
    /\ fpc[c] = "select"
    /\ IF Selectable = {}
       THEN /\ fpc' = [fpc EXCEPT ![c] = "returned"]
            /\ fRet' = [fRet EXCEPT ![c] = NoProviderError]
            /\ UNCHANGED <<fAttempts, fProv>>
       ELSE /\ \E p \in Selectable : fProv' = [fProv EXCEPT ![c] = p]
            /\ fAttempts' = [fAttempts EXCEPT ![c] = @ + 1]
            /\ fpc' = [fpc EXCEPT ![c] = "inflight"]
            /\ fRet' = fRet
    /\ UNCHANGED <<provState, cooldown>>

\* The health table after the provider of call c got newState.
SetHealth(c, newState) ==
    /\ provState' = [provState EXCEPT ![fProv[c]] = newState]
    /\ cooldown' = [cooldown EXCEPT ![fProv[c]] =
                       IF newState = StateBlacklisted
                          /\ provState[fProv[c]] # StateBlacklisted
                       THEN CooldownTicks ELSE @]

\* The call returns err to its caller.
EwrReturn(c, err) ==
    /\ fpc' = [fpc EXCEPT ![c] = "returned"]
    /\ fRet' = [fRet EXCEPT ![c] = err]

EwrRetryAlways(c, err) ==
    fpc' = [fpc EXCEPT ![c] = "select"] /\ fRet' = fRet

\* The call goes on to its next attempt, or returns the last error when the
\* attempts are used up.
EwrRetryOrReturn(c, err) ==
    IF fAttempts[c] <= MaxRetries
    THEN fpc' = [fpc EXCEPT ![c] = "select"] /\ fRet' = fRet
    ELSE EwrReturn(c, err)

EwrOutcomePenalizingAll(c, err) ==
    /\ fpc[c] = "inflight"
    /\ IF Classify(err) = "success"
       THEN SetHealth(c, MarkHealthy(provState[fProv[c]])) /\ EwrReturn(c, NoError)
       ELSE SetHealth(c, Penalize(provState[fProv[c]])) /\ EwrRetryOrReturn(c, err)
    /\ UNCHANGED <<fAttempts, fProv>>

\* op(client) returned err: the outcome is classified, the health of the
\* provider updated, and the call returns or goes on to another attempt.
EwrOutcome(c, err) ==
    /\ fpc[c] = "inflight"
    /\ CASE Classify(err) = "success" ->
              /\ SetHealth(c, MarkHealthy(provState[fProv[c]]))
              /\ EwrReturn(c, NoError)
         [] Classify(err) = "fault" ->
              /\ SetHealth(c, Penalize(provState[fProv[c]]))
              /\ EwrRetryOrReturn(c, err)
         [] Classify(err) = "notAFault" ->
              /\ EwrReturn(c, err)
              /\ UNCHANGED <<provState, cooldown>>
         [] OTHER ->
              /\ EwrReturn(c, err) \/ EwrRetryOrReturn(c, err)
              /\ UNCHANGED <<provState, cooldown>>
    /\ UNCHANGED <<fAttempts, fProv>>

\* An abstract operation returns.
EwrOpReturn(c) == \E err \in OpErrors : EwrOutcome(c, err)

\* An attempt of a call of another worker ends on provider p, which is
\* marked healthy or penalized.
OtherWorkerOutcome ==
    /\ \E p \in Providers, fault \in BOOLEAN :
          LET newState == IF fault THEN Penalize(provState[p])
                          ELSE MarkHealthy(provState[p])
          IN  /\ provState' = [provState EXCEPT ![p] = newState]
              /\ cooldown' = [cooldown EXCEPT ![p] =
                                 IF newState = StateBlacklisted
                                    /\ provState[p] # StateBlacklisted
                                 THEN CooldownTicks ELSE @]
    /\ UNCHANGED <<fpc, fAttempts, fProv, fRet>>

\* The clock advances by one tick; a blacklisted provider whose cooldown
\* has elapsed is reinstated at unhealthy.
Reinstated == StateUnhealthy

Tick ==
    /\ \E p \in Providers : cooldown[p] > 0
    /\ cooldown' = [p \in Providers |-> IF cooldown[p] > 0 THEN cooldown[p] - 1 ELSE 0]
    /\ provState' = [p \in Providers |->
                        IF cooldown[p] = 1 /\ provState[p] = StateBlacklisted
                        THEN Reinstated ELSE provState[p]]
    /\ UNCHANGED <<fpc, fAttempts, fProv, fRet>>

(***************************************************************************)
(* BitcoinIndexer.GetBlock: the fetch operation under ExecuteWithRetry,    *)
(* the enrichment of a block without prevout data under a second           *)
(* ExecuteWithRetry (its error is only logged), then processBlock.         *)
(* The attempts of the other workers' calls update the same health table.  *)
(***************************************************************************)
\* enrichPrevOuts: true, set by NewBitcoinIndexer.
EnrichPrevOuts == TRUE

\* b.GetNetworkId()
NetworkId == "btc"

\* The failover call GetBlock makes.
GetBlockCall == "gb"

\* blockHasPrevOutData(blk)
BlockHasPrevOutData(blk) ==
    IF blk.isNil THEN FALSE
    ELSE \E i \in DOMAIN blk.tx : HasPrevOutData(blk.tx[i])

\* What EnrichBlockWithPrevOuts can leave in a vin, a transaction, a block.
EnrichedVins(vin) ==
    IF ~NeedsLookup(vin) THEN {vin}
    ELSE { IF outcome = "err" THEN vin ELSE WithPrevOut(vin, PrevTx(vin.txid)) :
             outcome \in GetRawTransactionOutcomes(vin.txid) }

EnrichedTransactions(t) ==
    IF IsCoinbase(t) \/ HasPrevOutData(t) THEN {t}
    ELSE { [t EXCEPT !.vin = vins] :
             vins \in { v \in [DOMAIN t.vin -> UNION {EnrichedVins(t.vin[j]) : j \in DOMAIN t.vin}] :
                          \A j \in DOMAIN t.vin : v[j] \in EnrichedVins(t.vin[j]) } }

EnrichedBlocks(blk) ==
    { [blk EXCEPT !.tx = txs] :
        txs \in { x \in [DOMAIN blk.tx -> UNION {EnrichedTransactions(blk.tx[i]) : i \in DOMAIN blk.tx}] :
                     \A i \in DOMAIN blk.tx : x[i] \in EnrichedTransactions(blk.tx[i]) } }

\* For each transaction of a block, an order in which the range over its
\* grouped outputs may run.
OrderChoices(txs) ==
    { o \in [DOMAIN txs -> UNION {IterationOrders(GroupOutputsByAddress(txs[i])) : i \in DOMAIN txs}] :
        \A i \in DOMAIN txs : o[i] \in IterationOrders(GroupOutputsByAddress(txs[i])) }

\* The loop of processBlock from transaction i on: fee := tx.CalculateFee();
\* transfers := tx.ExtractTransfers(networkId, height, time, fee); append.
RECURSIVE ProcessTransactions(_, _, _, _)
ProcessTransactions(blk, networkID, orders, i) ==
    IF i > Len(blk.tx) THEN <<>>
    ELSE ExtractTransfers(blk.tx[i], networkID, blk.height, blk.time,
                          CalculateFee(blk.tx[i]), orders[i])
         \o ProcessTransactions(blk, networkID, orders, i + 1)

\* processBlock(blk) for a non-nil block.
ProcessBlock(blk, networkID, orders) ==
    [number |-> blk.height, hash |-> blk.hash, timestamp |-> blk.time,
     transactions |-> ProcessTransactions(blk, networkID, orders, 1)]

\* What GetBlock returns: (*types.Block, error).
NilResult == <<>>

GetBlockReturn(result, err) == [block |-> result, err |-> err]

GetBlockInit ==
    /\ gbNumber = 1
    /\ gbPc = "idle"
    /\ gbBlk = <<>>
    /\ opRet = NoError
    /\ rpcLog = <<>>
    /\ \E t \in HealthTables :
          /\ provState = [p \in Providers |-> t[p].state]
          /\ cooldown = [p \in Providers |-> t[p].cooldown]
    /\ fpc = [c \in {GetBlockCall} |-> "idle"]
    /\ fAttempts = [c \in {GetBlockCall} |-> 0]
    /\ fProv = [c \in {GetBlockCall} |-> NoProvider]
    /\ fRet = [c \in {GetBlockCall} |-> NoError]
    /\ gPc = "idle"
    /\ gRet = GetBlockReturn(NilResult, NoError)

GetBlockIdle ==
    /\ gPc = "idle"
    /\ gRet = GetBlockReturn(NilResult, NoError)

\* GetBlock is called: err := b.failover.ExecuteWithRetry(ctx, func ...)
GetBlockStart ==
    /\ gPc = "idle"
    /\ gPc' = "fetch"
    /\ EwrCall(GetBlockCall)
    /\ UNCHANGED <<gRet, attemptVars>>

\* The coordinator invokes the fetch operation on the selected provider;
\* rpcLog holds the calls of the current attempt.
FetchOpInvoke ==
    /\ gPc = "fetch"
    /\ fpc[GetBlockCall] = "inflight"
    /\ gbPc = "idle"
    /\ gbPc' = "hash"
    /\ opRet' = NoError
    /\ rpcLog' = <<>>
    /\ UNCHANGED <<gbNumber, gbBlk, failoverVars, getBlockVars>>

\* The fetch operation returned opRet to the coordinator.
FetchOpReturn ==
    /\ gPc = "fetch"
    /\ gbPc = "done"
    /\ EwrOutcome(GetBlockCall, opRet)
    /\ gbPc' = "idle"
    /\ UNCHANGED <<gbNumber, gbBlk, opRet, rpcLog, getBlockVars>>

\* The fetch error is dropped: GetBlock returns nil, nil.
GetBlockFetchFailedSilently ==
    /\ gPc = "fetch"
    /\ fpc[GetBlockCall] = "returned"
    /\ fRet[GetBlockCall] # NoError
    /\ gPc' = "returned"
    /\ gRet' = GetBlockReturn(NilResult, NoError)
    /\ UNCHANGED <<attemptVars, failoverVars>>

\* if err != nil { return nil, err }
GetBlockFetchFailed ==
    /\ gPc = "fetch"
    /\ fpc[GetBlockCall] = "returned"
    /\ fRet[GetBlockCall] # NoError
    /\ gPc' = "returned"
    /\ gRet' = GetBlockReturn(NilResult, fRet[GetBlockCall])
    /\ UNCHANGED <<attemptVars, failoverVars>>

\* if b.enrichPrevOuts && !b.blockHasPrevOutData(blk): the second
\* ExecuteWithRetry is entered.
GetBlockEnrichStart ==
    /\ gPc = "fetch"
    /\ fpc[GetBlockCall] = "returned"
    /\ fRet[GetBlockCall] = NoError
    /\ EnrichPrevOuts /\ ~BlockHasPrevOutData(IF gbBlk = <<>> THEN NilBlockPtr ELSE gbBlk[1])
    /\ gPc' = "enrich"
    /\ fpc' = [fpc EXCEPT ![GetBlockCall] = "select"]
    /\ fAttempts' = [fAttempts EXCEPT ![GetBlockCall] = 0]
    /\ UNCHANGED <<provState, cooldown, fProv, fRet, gRet, attemptVars>>

\* The coordinator invokes c.EnrichBlockWithPrevOuts(ctx, blk), which
\* enriches blk in place and returns nil for a non-nil block.
EnrichOp ==
    /\ gPc = "enrich"
    /\ fpc[GetBlockCall] = "inflight"
    /\ IF gbBlk = <<>>
       THEN /\ EwrOutcome(GetBlockCall, ErrorOf("blockIsNil", 0))
            /\ gbBlk' = gbBlk
       ELSE /\ \E b \in EnrichedBlocks(gbBlk[1]) : gbBlk' = <<b>>
            /\ EwrOutcome(GetBlockCall, NoError)
    /\ UNCHANGED <<gbNumber, gbPc, opRet, rpcLog, getBlockVars>>

\* return b.processBlock(blk), nil
ReturnProcessed ==
    /\ gPc' = "returned"
    /\ IF gbBlk = <<>>
       THEN gRet' = GetBlockReturn(NilResult, NoError)
       ELSE \E orders \in OrderChoices(gbBlk[1].tx) :
               gRet' = GetBlockReturn(<<ProcessBlock(gbBlk[1], NetworkId, orders)>>, NoError)
    /\ UNCHANGED <<attemptVars, failoverVars>>

\* No enrichment is needed: the block is processed at once.
GetBlockNoEnrich ==
    /\ gPc = "fetch"
    /\ fpc[GetBlockCall] = "returned"
    /\ fRet[GetBlockCall] = NoError
    /\ ~(EnrichPrevOuts /\ ~BlockHasPrevOutData(IF gbBlk = <<>> THEN NilBlockPtr ELSE gbBlk[1]))
    /\ ReturnProcessed

GetBlockAfterEnrichReturningError ==
    /\ gPc = "enrich"
    /\ fpc[GetBlockCall] = "returned"
    /\ IF fRet[GetBlockCall] # NoError
       THEN /\ gPc' = "returned"
            /\ gRet' = GetBlockReturn(NilResult, fRet[GetBlockCall])
            /\ UNCHANGED <<attemptVars, failoverVars>>
       ELSE ReturnProcessed

\* The enrichment call returned; its error is logged, the block processed.
GetBlockAfterEnrich ==
    /\ gPc = "enrich"
    /\ fpc[GetBlockCall] = "returned"
    /\ ReturnProcessed

(***************************************************************************)
(* processBlock on its own: a decoded block of a coinbase transaction and  *)
(* one transaction of the corpus is converted, and converted once more     *)
(* (the indexer fetches and processes a height again after a failure or a  *)
(* reorganisation).                                                        *)
(***************************************************************************)
ProcessedBlocks ==
    { Block(<< Transaction("cb", <<CoinbaseVin>>, <<Vout(1, ScriptPubKey("a", <<>>))>>), t >>) :
        t \in Transactions }

NoTypesBlock == [number |-> 0, hash |-> "", timestamp |-> 0, transactions |-> <<>>]

ProcessInit ==
    /\ pbBlk \in ProcessedBlocks
    /\ pbPc = "ready"
    /\ pbOut = NoTypesBlock
    /\ pbAgain = NoTypesBlock

ProcessIdle ==
    /\ pbBlk = NilBlockPtr
    /\ pbPc = "idle"
    /\ pbOut = NoTypesBlock
    /\ pbAgain = NoTypesBlock

\* b.processBlock(blk)
DoProcessBlock ==
    /\ pbPc = "ready"
    /\ \E orders \in OrderChoices(pbBlk.tx) :
          pbOut' = ProcessBlock(pbBlk, NetworkId, orders)
    /\ pbPc' = "done"
    /\ UNCHANGED <<pbBlk, pbAgain>>

\* b.processBlock(blk) on the same decoded block, a second time.
DoProcessBlockAgain ==
    /\ pbPc = "done"
    /\ \E orders \in OrderChoices(pbBlk.tx) :
          pbAgain' = ProcessBlock(pbBlk, NetworkId, orders)
    /\ pbPc' = "again"
    /\ UNCHANGED <<pbBlk, pbOut>>

\* The context handed to EnrichBlockWithPrevOuts is not cancelled.
EnrichCtxIdle == enrCtxDone = FALSE

\* The caller's context is cancelled while EnrichBlockWithPrevOuts runs; the
\* function and its tasks hand ctx to GetRawTransaction and read it nowhere.
EnrichCancel ==
    /\ enrPc \in {"call", "spawn"}
    /\ ~enrCtxDone
    /\ enrCtxDone' = TRUE
    /\ UNCHANGED enrichVars

\* Three spends of two outputs each; the lookup of "q" may fail.
SpendsBlock ==
    Block([i \in 1..3 |->
              Transaction("s", <<SpendVin("q", 0), SpendVin("p", 0)>>, <<>>)])

\* A call on a block with several tasks of several vins, with a live context.
EnrichCancelInit ==
    /\ block \in {MixedBlock, SpendsBlock}
    /\ enrPc = "call"
    /\ enrI = 1
    /\ semaphore = 0
    /\ tpc = [i \in DOMAIN block.tx |-> "none"]
    /\ tj = [i \in DOMAIN block.tx |-> 0]
    /\ enrRet = "none"
    /\ lookupFailed = {}
    /\ enrCtxDone = FALSE

(***************************************************************************)
(* GetBlocks: the list of heights of a range, in uint64 arithmetic scaled  *)
(* to WordBits bits.                                                       *)
(***************************************************************************)
\* Width of the scaled uint64 and int.
WordBits == 3

WordMod == 2 ^ WordBits

\* The largest int: make panics on a capacity above it.
MaxInt == 2 ^ (WordBits - 1) - 1

\* Appends explored of a loop that does not terminate.
MaxBuilt == 10

Words == 0 .. (WordMod - 1)

\* to-from+1 and n++ on the unsigned word.
WordAdd(a, b) == (a + b) % WordMod

WordSub(a, b) == (a - b + WordMod) % WordMod

RangeIdle ==
    /\ gbsFrom = 0 /\ gbsTo = 0 /\ gbsPc = "idle"
    /\ gbsCap = 0 /\ gbsN = 0 /\ gbsNums = <<>>

RangeInit ==
    /\ gbsFrom \in Words /\ gbsTo \in Words /\ gbsPc = "call"
    /\ gbsCap = 0 /\ gbsN = 0 /\ gbsNums = <<>>

\* if to < from { return nil, fmt.Errorf("invalid range") }
GetBlocksInvalidRange ==
    /\ gbsPc = "call"
    /\ gbsTo < gbsFrom
    /\ gbsPc' = "error"
    /\ UNCHANGED <<gbsFrom, gbsTo, gbsCap, gbsN, gbsNums>>

\* nums := make([]uint64, 0, to-from+1); n := from
GetBlocksMake ==
    /\ gbsPc = "call"
    /\ ~(gbsTo < gbsFrom)
    /\ gbsCap' = WordAdd(WordSub(gbsTo, gbsFrom), 1)
    /\ IF gbsCap' > MaxInt
       THEN gbsPc' = "panic" /\ UNCHANGED <<gbsN, gbsNums>>
       ELSE gbsPc' = "loop" /\ gbsN' = gbsFrom /\ gbsNums' = <<>>
    /\ UNCHANGED <<gbsFrom, gbsTo>>

\* for ...; n <= to; n++ { nums = append(nums, n) }
GetBlocksAppend ==
    /\ gbsPc = "loop"
    /\ gbsN <= gbsTo
    /\ Len(gbsNums) < MaxBuilt
    /\ gbsNums' = Append(gbsNums, gbsN)
    /\ gbsN' = WordAdd(gbsN, 1)
    /\ UNCHANGED <<gbsFrom, gbsTo, gbsPc, gbsCap>>

\* return b.GetBlocksByNumbers(ctx, nums)
GetBlocksHandOver ==
    /\ gbsPc = "loop"
    /\ ~(gbsN <= gbsTo)
    /\ gbsPc' = "handed"
    /\ UNCHANGED <<gbsFrom, gbsTo, gbsCap, gbsN, gbsNums>>

(***************************************************************************)
(* The address codec: IsValidAddress and DetectAddressType.                *)
(***************************************************************************)
AddressTypeP2PKH == "p2pkh"
AddressTypeP2SH == "p2sh"
AddressTypeP2WPKH == "p2wpkh"
AddressTypeP2WSH == "p2wsh"
AddressTypeP2TR == "p2tr"
AddressTypeUnknown == "unknown"
AddressTypeWitnessUnknown == "witness_unknown"

MainnetP2PKHPrefix == 0
MainnetP2SHPrefix == 5
MainnetBech32HRP == "bc"
TestnetP2PKHPrefix == 111
TestnetP2SHPrefix == 196
TestnetBech32HRP == "tb"

\* The address strings handed to the codec, each with what the library
\* decoders return on it: its first three characters, the bytes of
\* base58.Decode, the first four bytes of the double SHA-256 of the first 21
\* of them, and the result of bech32.Decode.
AddressCorpus ==
    { [addr |-> "",
       prefix |-> "",
       base58 |-> <<>>,
       sha |-> <<>>,
       bech32 |-> [err |-> TRUE, hrp |-> "", data |-> <<>>]],
      [addr |-> "1A1zP1eP5QGefi2DMPTfTL5SLmv7DivfNa",
       prefix |-> "1A1",
       base58 |-> <<0, 98, 233, 7, 177, 92, 191, 39, 213, 66, 83, 153, 235, 246, 240, 251, 80, 235, 184, 143, 24, 194, 155, 125, 147>>,
       sha |-> <<194, 155, 125, 147>>,
       bech32 |-> [err |-> TRUE, hrp |-> "", data |-> <<>>]],
      [addr |-> "1A1zP1eP5QGefi2DMPTfTL5SLmv7DivfNb",
       prefix |-> "1A1",
       base58 |-> <<0, 98, 233, 7, 177, 92, 191, 39, 213, 66, 83, 153, 235, 246, 240, 251, 80, 235, 184, 143, 24, 194, 155, 125, 148>>,
       sha |-> <<194, 155, 125, 147>>,
       bech32 |-> [err |-> TRUE, hrp |-> "", data |-> <<>>]],
      [addr |-> "3J98t1WpEZ73CNmQviecrnyiWrnqRhWNLy",
       prefix |-> "3J9",
       base58 |-> <<5, 180, 114, 162, 102, 208, 189, 137, 193, 55, 6, 164, 19, 44, 207, 177, 111, 124, 59, 159, 203, 129, 252, 252, 2>>,
       sha |-> <<129, 252, 252, 2>>,
       bech32 |-> [err |-> TRUE, hrp |-> "", data |-> <<>>]],
      [addr |-> "3J98t1WpEZ73CNmQviecrnyiWrnqRhWNLz",
       prefix |-> "3J9",
       base58 |-> <<5, 180, 114, 162, 102, 208, 189, 137, 193, 55, 6, 164, 19, 44, 207, 177, 111, 124, 59, 159, 203, 129, 252, 252, 3>>,
       sha |-> <<129, 252, 252, 2>>,
       bech32 |-> [err |-> TRUE, hrp |-> "", data |-> <<>>]],
      [addr |-> "mipcBbFg9gMiCh81Kj8tqqdgoZub1ZJRfn",
       prefix |-> "mip",
       base58 |-> <<111, 36, 63, 19, 148, 244, 69, 84, 244, 206, 63, 214, 134, 73, 193, 154, 220, 72, 60, 233, 36, 187, 222, 33, 81>>,
       sha |-> <<187, 222, 33, 81>>,
       bech32 |-> [err |-> TRUE, hrp |-> "", data |-> <<>>]],
      [addr |-> "2MzQwSSnBHWHqSAqtTVQ6v47XtaisrJa1Vc",
       prefix |-> "2Mz",
       base58 |-> <<196, 78, 159, 57, 202, 70, 136, 255, 16, 33, 40, 234, 76, 205, 163, 65, 5, 50, 67, 5, 176, 127, 57, 21, 83>>,
       sha |-> <<127, 57, 21, 83>>,
       bech32 |-> [err |-> TRUE, hrp |-> "", data |-> <<>>]],
      [addr |-> "2MzQwSSnBHWHqSAqtTVQ6v47XtaisrJa1Vd",
       prefix |-> "2Mz",
       base58 |-> <<196, 78, 159, 57, 202, 70, 136, 255, 16, 33, 40, 234, 76, 205, 163, 65, 5, 50, 67, 5, 176, 127, 57, 21, 84>>,
       sha |-> <<127, 57, 21, 83>>,
       bech32 |-> [err |-> TRUE, hrp |-> "", data |-> <<>>]],
      [addr |-> "LM2WMpR1Rp6j3Sa59cMXMs1SPzj9eXpGc1",
       prefix |-> "LM2",
       base58 |-> <<48, 19, 198, 13, 142, 104, 215, 52, 159, 91, 76, 163, 98, 195, 149, 75, 21, 4, 80, 97, 177, 54, 58, 102, 98>>,
       sha |-> <<54, 58, 102, 98>>,
       bech32 |-> [err |-> TRUE, hrp |-> "", data |-> <<>>]],
      [addr |-> "hello",
       prefix |-> "hel",
       base58 |-> <<>>,
       sha |-> <<>>,
       bech32 |-> [err |-> TRUE, hrp |-> "", data |-> <<>>]],
      [addr |-> "1A1zP1eP5QGefi2DMPTfTL5SLmv7Div",
       prefix |-> "1A1",
       base58 |-> <<0, 33, 57, 15, 11, 23, 47, 140, 144, 229, 176, 158, 2, 113, 189, 226, 253, 32, 251, 24, 208, 151, 47>>,
       sha |-> <<188, 41, 126, 134>>,
       bech32 |-> [err |-> TRUE, hrp |-> "", data |-> <<>>]],
      [addr |-> "bc1qw508d6qejxtdg4y5r3zarvary0c5xw7kv8f3t4",
       prefix |-> "bc1",
       base58 |-> <<>>,
       sha |-> <<>>,
       bech32 |-> [err |-> FALSE, hrp |-> "bc", data |-> <<0, 14, 20, 15, 7, 13, 26, 0, 25, 18, 6, 11, 13, 8, 21, 4, 20, 3, 17, 2, 29, 3, 12, 29, 3, 4, 15, 24, 20, 6, 14, 30, 22>>]],
      [addr |-> "bc1qw508d6qejxtdg4y5r3zarvary0c5xw7kv8f3t5",
       prefix |-> "bc1",
       base58 |-> <<>>,
       sha |-> <<>>,
       bech32 |-> [err |-> TRUE, hrp |-> "", data |-> <<>>]],
      [addr |-> "bc1qrp33g0q5c5txsp9arysrx4k6zdkfs4nce4xj0gdcccefvpysxf3qccfmv3",
       prefix |-> "bc1",
       base58 |-> <<>>,
       sha |-> <<>>,
       bech32 |-> [err |-> FALSE, hrp |-> "bc", data |-> <<0, 3, 1, 17, 17, 8, 15, 0, 20, 24, 20, 11, 6, 16, 1, 5, 29, 3, 4, 16, 3, 6, 21, 22, 26, 2, 13, 22, 9, 16, 21, 19, 24, 25, 21, 6, 18, 15, 8, 13, 24, 24, 24, 25, 9, 12, 1, 4, 16, 6, 9, 17, 0>>]],
      [addr |-> "tb1qw508d6qejxtdg4y5r3zarvary0c5xw7kxpjzsx",
       prefix |-> "tb1",
       base58 |-> <<>>,
       sha |-> <<>>,
       bech32 |-> [err |-> FALSE, hrp |-> "tb", data |-> <<0, 14, 20, 15, 7, 13, 26, 0, 25, 18, 6, 11, 13, 8, 21, 4, 20, 3, 17, 2, 29, 3, 12, 29, 3, 4, 15, 24, 20, 6, 14, 30, 22>>]],
      [addr |-> "bc1p5cyxnuxmeuwuvkwfem96lqzszd02n6xdcjrs20cac6yqjjwudpxqkedrcr",
       prefix |-> "bc1",
       base58 |-> <<>>,
       sha |-> <<>>,
       bech32 |-> [err |-> TRUE, hrp |-> "", data |-> <<>>]],
      [addr |-> "bc1pqypqxpq9qcrsszg2pvxq6rs0zqg3yyc5z5tpwxqergd3c8g7rusqm2l7p3",
       prefix |-> "bc1",
       base58 |-> <<>>,
       sha |-> <<>>,
       bech32 |-> [err |-> FALSE, hrp |-> "bc", data |-> <<1, 0, 4, 1, 0, 6, 1, 0, 5, 0, 24, 3, 16, 16, 2, 8, 10, 1, 12, 6, 0, 26, 3, 16, 15, 2, 0, 8, 17, 4, 4, 24, 20, 2, 20, 11, 1, 14, 6, 0, 25, 3, 8, 13, 17, 24, 7, 8, 30, 3, 28, 16, 0>>]],
      [addr |-> "bc1pqypqxpq9qcrsszg2pvxq6rs0zqg3yyc5zx9706",
       prefix |-> "bc1",
       base58 |-> <<>>,
       sha |-> <<>>,
       bech32 |-> [err |-> FALSE, hrp |-> "bc", data |-> <<1, 0, 4, 1, 0, 6, 1, 0, 5, 0, 24, 3, 16, 16, 2, 8, 10, 1, 12, 6, 0, 26, 3, 16, 15, 2, 0, 8, 17, 4, 4, 24, 20>>]],
      [addr |-> "bc1qqypqxpq9qcrsszg2pvxq6rs0zqlxvppt",
       prefix |-> "bc1",
       base58 |-> <<>>,
       sha |-> <<>>,
       bech32 |-> [err |-> FALSE, hrp |-> "bc", data |-> <<0, 0, 4, 1, 0, 6, 1, 0, 5, 0, 24, 3, 16, 16, 2, 8, 10, 1, 12, 6, 0, 26, 3, 16, 15, 2, 0>>]],
      [addr |-> "bc1zqypqxpq9qcrsszg2pvxq6rs0zq9v69tu",
       prefix |-> "bc1",
       base58 |-> <<>>,
       sha |-> <<>>,
       bech32 |-> [err |-> FALSE, hrp |-> "bc", data |-> <<2, 0, 4, 1, 0, 6, 1, 0, 5, 0, 24, 3, 16, 16, 2, 8, 10, 1, 12, 6, 0, 26, 3, 16, 15, 2, 0>>]],
      [addr |-> "bc1qqypqxpq9qcrsszg2pvxq6rs0zqg3yyc5pxx3wwu",
       prefix |-> "bc1",
       base58 |-> <<>>,
       sha |-> <<>>,
       bech32 |-> [err |-> FALSE, hrp |-> "bc", data |-> <<0, 0, 4, 1, 0, 6, 1, 0, 5, 0, 24, 3, 16, 16, 2, 8, 10, 1, 12, 6, 0, 26, 3, 16, 15, 2, 0, 8, 17, 4, 4, 24, 20, 1>>]],
      [addr |-> "bc1gmk9yu",
       prefix |-> "bc1",
       base58 |-> <<15, 190, 97, 110, 172, 22, 92>>,
       sha |-> <<>>,
       bech32 |-> [err |-> FALSE, hrp |-> "bc", data |-> <<>>]],
      [addr |-> "bcx1qqypqxpq9qcrsszg2pvxq6rs0zqg3yyc5h6q4d4",
       prefix |-> "bcx",
       base58 |-> <<>>,
       sha |-> <<>>,
       bech32 |-> [err |-> FALSE, hrp |-> "bcx", data |-> <<0, 0, 4, 1, 0, 6, 1, 0, 5, 0, 24, 3, 16, 16, 2, 8, 10, 1, 12, 6, 0, 26, 3, 16, 15, 2, 0, 8, 17, 4, 4, 24, 20>>]],
      [addr |-> "BC1QW508D6QEJXTDG4Y5R3ZARVARY0C5XW7KV8F3T4",
       prefix |-> "BC1",
       base58 |-> <<>>,
       sha |-> <<>>,
       bech32 |-> [err |-> FALSE, hrp |-> "bc", data |-> <<0, 14, 20, 15, 7, 13, 26, 0, 25, 18, 6, 11, 13, 8, 21, 4, 20, 3, 17, 2, 29, 3, 12, 29, 3, 4, 15, 24, 20, 6, 14, 30, 22>>]] }

Addresses == { e.addr : e \in AddressCorpus }

Entry(addr) == CHOOSE e \in AddressCorpus : e.addr = addr

\* strings.HasPrefix(addr, p) for a prefix of three characters.
HasPrefix(addr, p) == Entry(addr).prefix = p

\* base58.Decode(addr)
Base58Decode(addr) == Entry(addr).base58

\* sha256.Sum256 applied twice to the payload decoded[:21], first 4 bytes.
ExpectedChecksum(addr) == Entry(addr).sha

\* bech32.Decode(addr)
Bech32Decode(addr) == Entry(addr).bech32

\* Bit j (from 0) of the stream of 5-bit groups, most significant first.
GroupBit(data, j) == (data[(j \div 5) + 1] \div 2 ^ (4 - (j % 5))) % 2

\* Byte k (from 1) of the stream.
GroupByte(data, k) ==
    LET o == 8 * (k - 1) IN
      128 * GroupBit(data, o)     + 64 * GroupBit(data, o + 1)
    + 32 * GroupBit(data, o + 2)  + 16 * GroupBit(data, o + 3)
    + 8 * GroupBit(data, o + 4)   + 4 * GroupBit(data, o + 5)
    + 2 * GroupBit(data, o + 6)   + GroupBit(data, o + 7)

\* bech32.ConvertBits(data, 5, 8, false): the whole bytes of the stream, or
\* an error when the bits left over are five or more or are not all zero.
ConvertBits(data) ==
    LET total == 5 * Len(data)
        left == total % 8
    IN  [err |-> left >= 5
                   \/ \E j \in (total - left) .. (total - 1) : GroupBit(data, j) # 0,
         out |-> [k \in 1 .. (total \div 8) |-> GroupByte(data, k)]]

IsValidBech32Address(addr, isTestnet) ==
    LET expectedHRP == IF isTestnet THEN TestnetBech32HRP ELSE MainnetBech32HRP
        dec == Bech32Decode(addr)
    IN  IF dec.err THEN FALSE
        ELSE IF dec.hrp # expectedHRP THEN FALSE
        ELSE IF Len(dec.data) = 0 THEN FALSE
        ELSE LET conv == ConvertBits(Tail(dec.data))
                 witnessVersion == dec.data[1]
                 witnessProgram == conv.out
             IN  IF conv.err THEN FALSE
                 ELSE IF witnessVersion = 0 /\ Len(witnessProgram) # 20
                                            /\ Len(witnessProgram) # 32 THEN FALSE
                 ELSE IF witnessVersion = 1 /\ Len(witnessProgram) # 32 THEN FALSE
                 ELSE TRUE

\* validVersion of IsValidBase58Address.
ValidVersion(version, isTestnet) ==
    IF isTestnet
    THEN version = TestnetP2PKHPrefix \/ version = TestnetP2SHPrefix
    ELSE version = MainnetP2PKHPrefix \/ version = MainnetP2SHPrefix

IsValidBase58Address(addr, isTestnet) ==
    LET decoded == Base58Decode(addr) IN
    IF Len(decoded) # 25 THEN FALSE
    ELSE IF ~ValidVersion(decoded[1], isTestnet) THEN FALSE
    ELSE \A i \in 1..4 : decoded[21 + i] = ExpectedChecksum(addr)[i]

IsValidAddress(addr, isTestnet) ==
    IF addr = "" THEN FALSE
    ELSE IF HasPrefix(addr, "bc1") \/ HasPrefix(addr, "tb1")
         THEN IsValidBech32Address(addr, isTestnet)
         ELSE IsValidBase58Address(addr, isTestnet)

\* The Base58 part of DetectAddressType, reached also by a Bech32 string
\* whose switch returned nothing.
DetectBase58Type(addr, isTestnet) ==
    LET decoded == Base58Decode(addr) IN
    IF Len(decoded) = 25
    THEN IF isTestnet
         THEN IF decoded[1] = TestnetP2PKHPrefix THEN AddressTypeP2PKH
              ELSE IF decoded[1] = TestnetP2SHPrefix THEN AddressTypeP2SH
              ELSE AddressTypeUnknown
         ELSE IF decoded[1] = MainnetP2PKHPrefix THEN AddressTypeP2PKH
              ELSE IF decoded[1] = MainnetP2SHPrefix THEN AddressTypeP2SH
              ELSE AddressTypeUnknown
    ELSE AddressTypeUnknown

DetectAddressType(addr, isTestnet) ==
    IF addr = "" THEN AddressTypeUnknown
    ELSE IF HasPrefix(addr, "bc1") \/ HasPrefix(addr, "tb1")
    THEN LET expectedHRP == IF isTestnet THEN TestnetBech32HRP ELSE MainnetBech32HRP
             dec == Bech32Decode(addr)
         IN  IF dec.err THEN AddressTypeUnknown
             ELSE IF dec.hrp # expectedHRP \/ Len(dec.data) = 0 THEN AddressTypeUnknown
             ELSE LET witnessVersion == dec.data[1]
                      converted == ConvertBits(Tail(dec.data))
                  IN  IF converted.err THEN AddressTypeUnknown
                      ELSE IF witnessVersion = 0 /\ Len(converted.out) = 20
                           THEN AddressTypeP2WPKH
                      ELSE IF witnessVersion = 0 /\ Len(converted.out) = 32
                           THEN AddressTypeP2WSH
                      ELSE IF witnessVersion = 1 /\ Len(converted.out) = 32
                           THEN AddressTypeP2TR
                      ELSE IF witnessVersion \notin {0, 1}
                           THEN AddressTypeWitnessUnknown
                      ELSE DetectBase58Type(addr, isTestnet)
    ELSE DetectBase58Type(addr, isTestnet)

AddrIdle ==
    /\ adAddr = "" /\ adTestnet = FALSE
    /\ adValidPc = "idle" /\ adValid = FALSE
    /\ adTypePc = "idle" /\ adType = AddressTypeUnknown

AddrInit ==
    /\ adAddr \in Addresses /\ adTestnet \in BOOLEAN
    /\ adValidPc = "ready" /\ adValid = FALSE
    /\ adTypePc = "ready" /\ adType = AddressTypeUnknown

DoIsValidAddress ==
    /\ adValidPc = "ready"
    /\ adValid' = IsValidAddress(adAddr, adTestnet)
    /\ adValidPc' = "done"
    /\ UNCHANGED <<adAddr, adTestnet, adTypePc, adType>>

DoDetectAddressType ==
    /\ adTypePc = "ready"
    /\ adType' = DetectAddressType(adAddr, adTestnet)
    /\ adTypePc' = "done"
    /\ UNCHANGED <<adAddr, adTestnet, adValidPc, adValid>>

(***************************************************************************)
(* Specifications.                                                         *)
(***************************************************************************)
TxNext ==
    \/ DoExtractTransfers /\ UNCHANGED <<addrVars, rangeVars, processVars, enrCtxDone, blocksVars, enrichVars, attemptVars, failoverVars, getBlockVars>>
    \/ DoCalculateFee /\ UNCHANGED <<addrVars, rangeVars, processVars, enrCtxDone, blocksVars, enrichVars, attemptVars, failoverVars, getBlockVars>>

TxSpecInit == TxInit /\ BlocksIdle /\ EnrichIdle /\ AttemptIdle /\ FailoverIdle /\ GetBlockIdle /\ ProcessIdle /\ EnrichCtxIdle /\ RangeIdle /\ AddrIdle

TxSpec == TxSpecInit /\ [][TxNext]_vars

BlocksNext ==
    \/ GetBlocksByNumbersStart /\ UNCHANGED <<addrVars, rangeVars, processVars, enrCtxDone, txVars, enrichVars, attemptVars, failoverVars, getBlockVars>>
    \/ ProducerSend /\ UNCHANGED <<addrVars, rangeVars, processVars, enrCtxDone, txVars, enrichVars, attemptVars, failoverVars, getBlockVars>>
    \/ ProducerCancel /\ UNCHANGED <<addrVars, rangeVars, processVars, enrCtxDone, txVars, enrichVars, attemptVars, failoverVars, getBlockVars>>
    \/ ProducerDone /\ UNCHANGED <<addrVars, rangeVars, processVars, enrCtxDone, txVars, enrichVars, attemptVars, failoverVars, getBlockVars>>
    \/ \E w \in Workers : WorkerRecv(w) /\ UNCHANGED <<addrVars, rangeVars, processVars, enrCtxDone, txVars, enrichVars, attemptVars, failoverVars, getBlockVars>>
    \/ \E w \in Workers : WorkerExit(w) /\ UNCHANGED <<addrVars, rangeVars, processVars, enrCtxDone, txVars, enrichVars, attemptVars, failoverVars, getBlockVars>>
    \/ \E w \in Workers : WorkerCall(w) /\ UNCHANGED <<addrVars, rangeVars, processVars, enrCtxDone, txVars, enrichVars, attemptVars, failoverVars, getBlockVars>>
    \/ \E w \in Workers : WorkerStore(w) /\ UNCHANGED <<addrVars, rangeVars, processVars, enrCtxDone, txVars, enrichVars, attemptVars, failoverVars, getBlockVars>>
    \/ GetBlocksByNumbersReturn /\ UNCHANGED <<addrVars, rangeVars, processVars, enrCtxDone, txVars, enrichVars, attemptVars, failoverVars, getBlockVars>>
    \/ Cancel /\ UNCHANGED <<addrVars, rangeVars, processVars, enrCtxDone, txVars, enrichVars, attemptVars, failoverVars, getBlockVars>>

BlocksSpecInit == BlocksInit /\ TxIdle /\ EnrichIdle /\ AttemptIdle /\ FailoverIdle /\ GetBlockIdle /\ ProcessIdle /\ EnrichCtxIdle /\ RangeIdle /\ AddrIdle

BlocksSpec == BlocksSpecInit /\ [][BlocksNext]_vars

\* The Go scheduler runs a goroutine that can take a step, and a GetBlock
\* call that was started returns.
BlocksFairSpec ==
    BlocksSpec /\ WF_vars(BlocksProgress /\ UNCHANGED <<addrVars, rangeVars, processVars, enrCtxDone, txVars, enrichVars, attemptVars, failoverVars, getBlockVars>>)

EnrichNext ==
    \/ EnrichStart /\ UNCHANGED <<addrVars, rangeVars, processVars, enrCtxDone, txVars, blocksVars, attemptVars, failoverVars, getBlockVars>>
    \/ EnrichSpawn /\ UNCHANGED <<addrVars, rangeVars, processVars, enrCtxDone, txVars, blocksVars, attemptVars, failoverVars, getBlockVars>>
    \/ \E i \in Tasks : TaskAcquire(i) /\ UNCHANGED <<addrVars, rangeVars, processVars, enrCtxDone, txVars, blocksVars, attemptVars, failoverVars, getBlockVars>>
    \/ \E i \in Tasks : TaskRpcReturn(i) /\ UNCHANGED <<addrVars, rangeVars, processVars, enrCtxDone, txVars, blocksVars, attemptVars, failoverVars, getBlockVars>>
    \/ EnrichReturn /\ UNCHANGED <<addrVars, rangeVars, processVars, enrCtxDone, txVars, blocksVars, attemptVars, failoverVars, getBlockVars>>

EnrichSpecInit == EnrichInit /\ TxIdle /\ BlocksIdle /\ AttemptIdle /\ FailoverIdle /\ GetBlockIdle /\ ProcessIdle /\ EnrichCtxIdle /\ RangeIdle /\ AddrIdle

EnrichSpec == EnrichSpecInit /\ [][EnrichNext]_vars

AttemptNext ==
    \/ OpGetBlockHash /\ UNCHANGED <<addrVars, rangeVars, processVars, enrCtxDone, txVars, blocksVars, enrichVars, failoverVars, getBlockVars>>
    \/ OpGetBlockWithPrevOut /\ UNCHANGED <<addrVars, rangeVars, processVars, enrCtxDone, txVars, blocksVars, enrichVars, failoverVars, getBlockVars>>
    \/ FacadeFallbackVerbose /\ UNCHANGED <<addrVars, rangeVars, processVars, enrCtxDone, txVars, blocksVars, enrichVars, failoverVars, getBlockVars>>
    \/ OpGetBlockVerbose /\ UNCHANGED <<addrVars, rangeVars, processVars, enrCtxDone, txVars, blocksVars, enrichVars, failoverVars, getBlockVars>>

AttemptSpecInit == AttemptInit /\ TxIdle /\ BlocksIdle /\ EnrichIdle /\ FailoverIdle /\ GetBlockIdle /\ ProcessIdle /\ EnrichCtxIdle /\ RangeIdle /\ AddrIdle

AttemptSpec == AttemptSpecInit /\ [][AttemptNext]_vars

FailoverNext ==
    \/ \E c \in Calls : EwrCall(c) /\ UNCHANGED <<addrVars, rangeVars, processVars, enrCtxDone, txVars, blocksVars, enrichVars, attemptVars, getBlockVars>>
    \/ \E c \in Calls : EwrSelect(c) /\ UNCHANGED <<addrVars, rangeVars, processVars, enrCtxDone, txVars, blocksVars, enrichVars, attemptVars, getBlockVars>>
    \/ \E c \in Calls : EwrOpReturn(c) /\ UNCHANGED <<addrVars, rangeVars, processVars, enrCtxDone, txVars, blocksVars, enrichVars, attemptVars, getBlockVars>>
    \/ Tick /\ UNCHANGED <<addrVars, rangeVars, processVars, enrCtxDone, txVars, blocksVars, enrichVars, attemptVars, getBlockVars>>

FailoverSpecInit == FailoverInit /\ TxIdle /\ BlocksIdle /\ EnrichIdle /\ AttemptIdle /\ GetBlockIdle /\ ProcessIdle /\ EnrichCtxIdle /\ RangeIdle /\ AddrIdle

FailoverSpec == FailoverSpecInit /\ [][FailoverNext]_vars

GetBlockNext ==
    \/ GetBlockStart /\ UNCHANGED <<addrVars, rangeVars, processVars, enrCtxDone, txVars, blocksVars, enrichVars>>
    \/ EwrSelect(GetBlockCall) /\ UNCHANGED <<addrVars, rangeVars, processVars, enrCtxDone, txVars, blocksVars, enrichVars, attemptVars, getBlockVars>>
    \/ FetchOpInvoke /\ UNCHANGED <<addrVars, rangeVars, processVars, enrCtxDone, txVars, blocksVars, enrichVars>>
    \/ OpGetBlockHash /\ UNCHANGED <<addrVars, rangeVars, processVars, enrCtxDone, txVars, blocksVars, enrichVars, failoverVars, getBlockVars>>
    \/ OpGetBlockWithPrevOut /\ UNCHANGED <<addrVars, rangeVars, processVars, enrCtxDone, txVars, blocksVars, enrichVars, failoverVars, getBlockVars>>
    \/ FacadeFallbackVerbose /\ UNCHANGED <<addrVars, rangeVars, processVars, enrCtxDone, txVars, blocksVars, enrichVars, failoverVars, getBlockVars>>
    \/ OpGetBlockVerbose /\ UNCHANGED <<addrVars, rangeVars, processVars, enrCtxDone, txVars, blocksVars, enrichVars, failoverVars, getBlockVars>>
    \/ FetchOpReturn /\ UNCHANGED <<addrVars, rangeVars, processVars, enrCtxDone, txVars, blocksVars, enrichVars>>
    \/ GetBlockFetchFailed /\ UNCHANGED <<addrVars, rangeVars, processVars, enrCtxDone, txVars, blocksVars, enrichVars>>
    \/ GetBlockEnrichStart /\ UNCHANGED <<addrVars, rangeVars, processVars, enrCtxDone, txVars, blocksVars, enrichVars>>
    \/ EnrichOp /\ UNCHANGED <<addrVars, rangeVars, processVars, enrCtxDone, txVars, blocksVars, enrichVars>>
    \/ GetBlockNoEnrich /\ UNCHANGED <<addrVars, rangeVars, processVars, enrCtxDone, txVars, blocksVars, enrichVars>>
    \/ GetBlockAfterEnrich /\ UNCHANGED <<addrVars, rangeVars, processVars, enrCtxDone, txVars, blocksVars, enrichVars>>
    \/ OtherWorkerOutcome /\ UNCHANGED <<addrVars, rangeVars, processVars, enrCtxDone, txVars, blocksVars, enrichVars, attemptVars, getBlockVars>>
    \/ Tick /\ UNCHANGED <<addrVars, rangeVars, processVars, enrCtxDone, txVars, blocksVars, enrichVars, attemptVars, getBlockVars>>

GetBlockSpecInit == GetBlockInit /\ TxIdle /\ BlocksIdle /\ EnrichIdle /\ ProcessIdle /\ EnrichCtxIdle /\ RangeIdle /\ AddrIdle

GetBlockSpec == GetBlockSpecInit /\ [][GetBlockNext]_vars

EnrichCancelNext ==
    \/ EnrichStart /\ UNCHANGED <<addrVars, rangeVars, txVars, blocksVars, attemptVars, failoverVars, getBlockVars, processVars, enrCtxDone>>
    \/ EnrichSpawn /\ UNCHANGED <<addrVars, rangeVars, txVars, blocksVars, attemptVars, failoverVars, getBlockVars, processVars, enrCtxDone>>
    \/ \E i \in Tasks : TaskAcquire(i) /\ UNCHANGED <<addrVars, rangeVars, txVars, blocksVars, attemptVars, failoverVars, getBlockVars, processVars, enrCtxDone>>
    \/ \E i \in Tasks : TaskRpcReturn(i) /\ UNCHANGED <<addrVars, rangeVars, txVars, blocksVars, attemptVars, failoverVars, getBlockVars, processVars, enrCtxDone>>
    \/ EnrichReturn /\ UNCHANGED <<addrVars, rangeVars, txVars, blocksVars, attemptVars, failoverVars, getBlockVars, processVars, enrCtxDone>>
    \/ EnrichCancel /\ UNCHANGED <<addrVars, rangeVars, txVars, blocksVars, attemptVars, failoverVars, getBlockVars, processVars>>

EnrichCancelSpecInit == EnrichCancelInit /\ TxIdle /\ BlocksIdle /\ AttemptIdle /\ FailoverIdle /\ GetBlockIdle /\ ProcessIdle /\ RangeIdle /\ AddrIdle

EnrichCancelSpec == EnrichCancelSpecInit /\ [][EnrichCancelNext]_vars

ProcessNext ==
    \/ DoProcessBlock /\ UNCHANGED <<addrVars, rangeVars, txVars, blocksVars, enrichVars, attemptVars, failoverVars, getBlockVars, enrCtxDone>>
    \/ DoProcessBlockAgain /\ UNCHANGED <<addrVars, rangeVars, txVars, blocksVars, enrichVars, attemptVars, failoverVars, getBlockVars, enrCtxDone>>

ProcessSpecInit == ProcessInit /\ TxIdle /\ BlocksIdle /\ EnrichIdle /\ AttemptIdle /\ FailoverIdle /\ GetBlockIdle /\ EnrichCtxIdle /\ RangeIdle /\ AddrIdle

ProcessSpec == ProcessSpecInit /\ [][ProcessNext]_vars

RangeNext ==
    \/ GetBlocksInvalidRange /\ UNCHANGED <<addrVars, txVars, blocksVars, enrichVars, attemptVars, failoverVars, getBlockVars, processVars, enrCtxDone>>
    \/ GetBlocksMake /\ UNCHANGED <<addrVars, txVars, blocksVars, enrichVars, attemptVars, failoverVars, getBlockVars, processVars, enrCtxDone>>
    \/ GetBlocksAppend /\ UNCHANGED <<addrVars, txVars, blocksVars, enrichVars, attemptVars, failoverVars, getBlockVars, processVars, enrCtxDone>>
    \/ GetBlocksHandOver /\ UNCHANGED <<addrVars, txVars, blocksVars, enrichVars, attemptVars, failoverVars, getBlockVars, processVars, enrCtxDone>>

RangeSpecInit == RangeInit /\ TxIdle /\ BlocksIdle /\ EnrichIdle /\ AttemptIdle /\ FailoverIdle /\ GetBlockIdle /\ ProcessIdle /\ EnrichCtxIdle /\ AddrIdle

RangeSpec == RangeSpecInit /\ [][RangeNext]_vars

AddrNext ==
    \/ DoIsValidAddress /\ UNCHANGED <<txVars, blocksVars, enrichVars, attemptVars, failoverVars, getBlockVars, processVars, enrCtxDone, rangeVars>>
    \/ DoDetectAddressType /\ UNCHANGED <<txVars, blocksVars, enrichVars, attemptVars, failoverVars, getBlockVars, processVars, enrCtxDone, rangeVars>>

AddrSpecInit == AddrInit /\ TxIdle /\ BlocksIdle /\ EnrichIdle /\ AttemptIdle /\ FailoverIdle /\ GetBlockIdle /\ ProcessIdle /\ EnrichCtxIdle /\ RangeIdle

AddrSpec == AddrSpecInit /\ [][AddrNext]_vars

(***************************************************************************)
(* Claims about the transfer extractor and the fee computation.            *)
(***************************************************************************)
Indices(s) == 1..Len(s)

NonChangeIndices == { i \in Indices(transfers) :
                        transfers[i].toAddress \notin Range(ExtractInputAddresses(tx)) }

FeeIndices == { i \in Indices(transfers) : transfers[i].txFee = fee }

Min(S) == CHOOSE m \in S : \A k \in S : m <= k

\* C1: for a non-coinbase transaction and a fee f > 0, exactly one emitted
\* transfer carries txFee = f, namely the first emitted transfer whose
\* to-address is not an input address, and every other transfer carries 0;
\* no transfer carries the fee only when every emitted to-address is an
\* input address.
C1_FeeOnFirstNonChange ==
    (txPc = "done" /\ ~IsCoinbase(tx) /\ fee > 0) =>
        /\ \A i \in Indices(transfers) : transfers[i].txFee \in {0, fee}
        /\ IF NonChangeIndices = {}
           THEN FeeIndices = {}
           ELSE FeeIndices = {Min(NonChangeIndices)}

\* A change transfer is emitted first, then two transfers that are not change.
C1_Witness ==
    /\ txPc = "done" /\ ~IsCoinbase(tx) /\ fee > 0
    /\ Len(transfers) >= 3
    /\ 1 \notin NonChangeIndices
    /\ Cardinality(NonChangeIndices) >= 2
    /\ transfers[Min(NonChangeIndices)].txFee = fee

\* C2 (as stated): CalculateFee returns 0 for a non-coinbase transaction as
\* soon as one of its inputs lacks prevOut.
C2_NoFeeFromPartialInputs ==
    (feePc = "done" /\ ~IsCoinbase(tx)
        /\ \E i \in DOMAIN tx.vin : tx.vin[i].prevOut = NoPrevOut)
    => calcFee = 0

AmountSum == SumSeq([i \in Indices(transfers) |-> transfers[i].amount])

\* An output that yields transfers: positive value, at least one address.
Emitting(vout) == vout.value > 0 /\ Len(ExtractAddresses(vout.scriptPubKey)) > 0

OutputValueSum ==
    SumSeq([i \in DOMAIN tx.vout |->
              IF Emitting(tx.vout[i]) THEN tx.vout[i].value ELSE 0])

OutputValuePerAddressSum ==
    SumSeq([i \in DOMAIN tx.vout |->
              IF Emitting(tx.vout[i])
              THEN tx.vout[i].value * Len(ExtractAddresses(tx.vout[i].scriptPubKey))
              ELSE 0])

\* C3 (as stated): the amounts of the emitted transfers sum to the values
\* of the outputs with value > 0 and at least one extracted address.
C3_AmountsSumToOutputValues ==
    txPc = "done" => AmountSum = OutputValueSum

\* C3 (amended): the amounts of the emitted transfers sum to the values of
\* those outputs, each counted once per address extracted from its
\* scriptPubKey.
C3_AmountsSumPerAddress ==
    txPc = "done" => AmountSum = OutputValuePerAddressSum

\* Two outputs pay the same address, one of them a multi-address output.
C3_Witness ==
    /\ txPc = "done" /\ ~IsCoinbase(tx)
    /\ Len(tx.vout) = 2
    /\ \A i \in DOMAIN tx.vout : Emitting(tx.vout[i])
    /\ Len(ExtractAddresses(tx.vout[1].scriptPubKey)) = 2
    /\ \E i \in Indices(transfers) : transfers[i].amount = 2
    /\ AmountSum = 3

\* The <<address, value>> pairs of the coinbase path, in emission order.
RECURSIVE AddressValuePairs(_)
AddressValuePairs(vouts) ==
    IF vouts = <<>> THEN <<>>
    ELSE (IF Head(vouts).value > 0
          THEN LET a == ExtractAddresses(Head(vouts).scriptPubKey)
               IN  [i \in 1..Len(a) |-> <<a[i], Head(vouts).value>>]
          ELSE <<>>)
         \o AddressValuePairs(Tail(vouts))

\* C4: every transfer of a coinbase transaction has fromAddress "coinbase",
\* type mining and txFee 0 whatever the fee argument, and there is one
\* transfer per extracted address of each vout with value > 0.
C4_CoinbaseTransfers ==
    (txPc = "done" /\ IsCoinbase(tx)) =>
        /\ \A i \in Indices(transfers) :
              /\ transfers[i].fromAddress = "coinbase"
              /\ transfers[i].type = TxnTypeMining
              /\ transfers[i].txFee = 0
        /\ [i \in Indices(transfers) |->
              <<transfers[i].toAddress, transfers[i].amount>>]
              = AddressValuePairs(tx.vout)

\* A coinbase transaction with a multi-address output, extracted with a fee.
C4_Witness ==
    /\ txPc = "done" /\ IsCoinbase(tx) /\ fee > 0
    /\ Len(transfers) = 2
    /\ \E i \in DOMAIN tx.vout : tx.vout[i].value = 0
    /\ \E i \in DOMAIN tx.vout :
          Len(ExtractAddresses(tx.vout[i].scriptPubKey)) = 2

(***************************************************************************)
(* Claims about GetBlocksByNumbers.                                        *)
(***************************************************************************)
\* C5: a returned result slice (the context was not cancelled) has
\* len(nums) entries and result[i].Number = nums[i] for every i, whatever
\* the interleaving of the workers and the completion order of the calls.
C5_ResultsInInputSlots ==
    (mainPc = "returned" /\ ret.err # CtxErr) =>
        /\ Len(ret.blocks) = Len(nums)
        /\ \A i \in DOMAIN nums : ret.blocks[i].Number = nums[i]

\* Several workers served a request of several heights; some calls failed.
C5_Witness ==
    /\ mainPc = "returned" /\ ret.err # CtxErr
    /\ Len(nums) >= 3
    /\ Cardinality(Workers) >= 2
    /\ ret.blocks[1].Error # NilError
    /\ ret.blocks[2].Block # NilBlock

\* The slots of a returned slice that hold an Error.
FailedSlots == { i \in DOMAIN ret.blocks : ret.blocks[i].Error # NilError }

\* C13: a call that returns without cancellation returns the whole slice:
\* every slot holds either a block and a nil Error or an Error; the returned
\* error is non-nil exactly when some slot holds an Error, and it then names
\* the number and the message of the failed slot of lowest index.
C13_FirstFailingSlotReported ==
    (mainPc = "returned" /\ ~ctxDone /\ Len(nums) > 0) =>
        /\ Len(ret.blocks) = Len(nums)
        /\ \A i \in DOMAIN ret.blocks :
              \/ ret.blocks[i].Block # NilBlock /\ ret.blocks[i].Error = NilError
              \/ ret.blocks[i].Block = NilBlock /\ ret.blocks[i].Error # NilError
        /\ (ret.err # NilErr) <=> (FailedSlots # {})
        /\ FailedSlots # {} =>
              LET low == CHOOSE i \in FailedSlots : \A k \in FailedSlots : i <= k
              IN  ret.err = "block " \o ToString(ret.blocks[low].Number) \o ": "
                               \o ret.blocks[low].Error[1].Message

\* A returned slice with a success in its first slot and failures in the two
\* slots after it: the error names the second slot.
C13_Witness ==
    /\ mainPc = "returned" /\ ~ctxDone
    /\ Len(ret.blocks) = 3
    /\ ret.blocks[1].Error = NilError
    /\ ret.blocks[2].Error # NilError /\ ret.blocks[3].Error # NilError
    /\ ret.err = "block 1: fetch failed"

GoroutinesFinished ==
    /\ prodPc = "done"
    /\ \A w \in Workers : wpc[w] = "exit"

\* C6: a cancellation during the call leads to the return of ctx.Err(), and
\* at the return neither the producer nor any worker is running or blocked.
C6_CancelReturnsCtxErr ==
    /\ (ctxDone /\ mainPc = "wait") ~> (mainPc = "returned" /\ ret.err = CtxErr)
    /\ [](mainPc = "returned" /\ Len(nums) > 0 => GoroutinesFinished)

\* The call returned ctx.Err() after the producer gave up with heights left
\* to dispatch, and after a worker had written a slot.
C6_Witness ==
    /\ mainPc = "returned" /\ ret.err = CtxErr
    /\ prodI <= Len(nums)
    /\ GoroutinesFinished
    /\ \E i \in DOMAIN blocks : blocks[i] # ZeroBlockResult

\* C7 (as stated): once the context is cancelled the producer enqueues no
\* further job, and no GetBlock call starts for a height that had not been
\* handed to a worker before the cancellation.
C7_CancelAbortsDispatch ==
    [][ctxDone =>
          /\ Len(jobs') <= Len(jobs)
          /\ \A w \in Workers :
                (wpc[w] = "call" /\ wpc'[w] = "inflight")
                    => wjob[w].index \in handedBeforeCancel]_vars

(***************************************************************************)
(* Claims about EnrichBlockWithPrevOuts.                                   *)
(***************************************************************************)
\* The loop over block.Tx is over and every task it started has completed.
AllScheduledDone ==
    /\ enrI > Len(block.tx)
    /\ \A i \in Tasks : tpc[i] \in {"none", "done"}

\* C8: never more than 10 getrawtransaction calls execute at once, and every
\* scheduled task acquires the semaphore and completes provided each call
\* returns: until the call has returned with every started task completed,
\* the caller or some task can take its next step, so no task is left
\* waiting for a token that is never released.
C8_AtMostTenCallsAndCompletion ==
    /\ InFlightCalls <= 10
    /\ (ENABLED EnrichNext) \/ (enrPc = "returned" /\ AllScheduledDone)

\* Ten calls are executing while another scheduled task waits for a token.
C8_Witness ==
    /\ InFlightCalls = 10
    /\ \E i \in Tasks : tpc[i] = "acquire"

\* C9: when EnrichBlockWithPrevOuts returns no task is running, every vin of
\* a scheduled transaction that is looked up has prevOut set or had its
\* lookup fail, and the block is not written after the return.
C9_ReturnAfterAllTasks ==
    /\ [](enrPc = "returned" =>
            /\ \A i \in Tasks : tpc[i] \in {"none", "done"}
            /\ \A i \in Tasks : tpc[i] = "done" =>
                  \A j \in DOMAIN block.tx[i].vin :
                      NeedsLookup(block.tx[i].vin[j]) =>
                          \/ block.tx[i].vin[j].prevOut # NoPrevOut
                          \/ <<i, j>> \in lookupFailed)
    /\ [][enrPc = "returned" => block' = block]_vars

\* The call returned after one lookup set a prevOut, one failed on an RPC
\* error and one on an index past the outputs.
C9_Witness ==
    /\ enrPc = "returned" /\ enrRet = "nil"
    /\ Cardinality(lookupFailed) >= 2
    /\ \E i \in Tasks : tpc[i] = "done" /\
          \E j \in DOMAIN block.tx[i].vin :
              /\ NeedsLookup(block.tx[i].vin[j])
              /\ block.tx[i].vin[j].prevOut # NoPrevOut
              /\ j > 1

(***************************************************************************)
(* Claims about the fetch operation of GetBlock.                           *)
(***************************************************************************)
\* C10 (as stated): GetBlockWithPrevOut issues getblock at verbosity 3 only;
\* when that call fails it never itself issues getblock at verbosity 2.
C10_FacadeOnlyVerbosity3 ==
    \A k \in DOMAIN rpcLog :
        rpcLog[k].via = "GetBlockWithPrevOut" => rpcLog[k].verbosity = 3

(***************************************************************************)
(* Claims about GetBlock and the failover coordinator.                     *)
(***************************************************************************)
\* The last fetch attempt: getblockhash succeeded, getblock at verbosity 3
\* returned an RPC error, and the last call, getblock at verbosity 2,
\* returned a block.
VerbosityFallbackAttempt ==
    /\ Len(rpcLog) >= 3
    /\ rpcLog[1].method = "getblockhash" /\ rpcLog[1].outcome = "ok"
    /\ rpcLog[2].verbosity = 3 /\ rpcLog[2].outcome = "rpcError"
    /\ rpcLog[Len(rpcLog)].verbosity = 2 /\ rpcLog[Len(rpcLog)].outcome = "ok"

\* C11: when getblockhash succeeds, getblock at verbosity 3 returns an RPC
\* error and getblock at verbosity 2 returns a block, the operation returns
\* nil with that block; the coordinator takes the attempt for a success (the
\* provider is not penalized), makes no further fetch attempt, and GetBlock
\* returns the block converted by processBlock with a nil error.
C11_VerbosityFallbackSucceeds ==
    /\ [](VerbosityFallbackAttempt =>
            /\ gbPc = "done" => (opRet = NoError /\ gbBlk = <<NodeBlock(2)>>)
            /\ (gPc = "fetch" /\ gbPc = "idle") =>
                  (fpc[GetBlockCall] = "returned" /\ fRet[GetBlockCall] = NoError)
            /\ gPc = "returned" =>
                  /\ gRet.err = NoError
                  /\ \E b \in EnrichedBlocks(NodeBlock(2)) :
                        \E orders \in OrderChoices(b.tx) :
                            gRet.block = <<ProcessBlock(b, NetworkId, orders)>>)
    /\ [][(VerbosityFallbackAttempt /\ gbPc = "done" /\ gbPc' = "idle") =>
            /\ provState'[fProv[GetBlockCall]]
                 = MarkHealthy(provState[fProv[GetBlockCall]])
            /\ fAttempts' = fAttempts]_vars

\* GetBlock returned a block after such an attempt, which was the second
\* attempt of the fetch.
C11_Witness ==
    /\ VerbosityFallbackAttempt
    /\ gPc = "returned"
    /\ gRet.err = NoError /\ gRet.block # NilResult

\* The fetch ExecuteWithRetry of GetBlock returned nil.
FetchSucceeded ==
    \/ gPc = "fetch" /\ fpc[GetBlockCall] = "returned" /\ fRet[GetBlockCall] = NoError
    \/ gPc = "enrich"

\* C12: once the fetch has succeeded, GetBlock returns a non-nil block and a
\* nil error whatever the enrichment call returned: the block is the
\* conversion of the fetched block as enrichment left it, and every transfer
\* of a transaction left without prevOut data carries fee 0.
C12_EnrichmentErrorNeverReturned ==
    [][(FetchSucceeded /\ gPc' = "returned") =>
         /\ gRet'.err = NoError
         /\ gRet'.block # NilResult
         /\ gbBlk # <<>>
         /\ \E orders \in OrderChoices(gbBlk[1].tx) :
               gRet'.block[1] = ProcessBlock(gbBlk[1], NetworkId, orders)
         /\ \A i \in DOMAIN gbBlk[1].tx :
               ~HasPrevOutData(gbBlk[1].tx[i]) =>
                  \A k \in DOMAIN gRet'.block[1].transactions :
                     gRet'.block[1].transactions[k].txHash = gbBlk[1].tx[i].txid
                        => gRet'.block[1].transactions[k].txFee = 0]_vars

\* GetBlock returned a block although the enrichment ExecuteWithRetry
\* returned an error, and the spending transaction was left without prevOut.
C12_Witness ==
    /\ gPc = "returned"
    /\ fRet[GetBlockCall] # NoError
    /\ gRet.err = NoError /\ gRet.block # NilResult
    /\ \E i \in DOMAIN gbBlk[1].tx :
          /\ ~IsCoinbase(gbBlk[1].tx[i]) /\ ~HasPrevOutData(gbBlk[1].tx[i])
          /\ \E k \in DOMAIN gRet.block[1].transactions :
                gRet.block[1].transactions[k].txHash = gbBlk[1].tx[i].txid

(***************************************************************************)
(* Claims about processBlock.                                              *)
(***************************************************************************)
\* C14: CalculateFee is never negative: for a non-coinbase transaction it is
\* totalInput - totalOutput, or 0 when totalInput < totalOutput; so every
\* transfer of a block returned by processBlock has txFee >= 0.
C14_FeeNeverNegative ==
    pbPc \in {"done", "again"} =>
        /\ \A i \in DOMAIN pbBlk.tx :
              LET t == pbBlk.tx[i]
                  diff == CalculateTotalInput(t) - CalculateTotalOutput(t)
              IN  /\ CalculateFee(t) >= 0
                  /\ ~IsCoinbase(t) => CalculateFee(t) = IF diff < 0 THEN 0 ELSE diff
        /\ \A k \in DOMAIN pbOut.transactions : pbOut.transactions[k].txFee >= 0

\* processBlock converted a block holding a transaction with resolved inputs
\* worth less than its outputs, and emitted transfers for it.
C14_Witness ==
    /\ pbPc = "done"
    /\ HasPrevOutData(pbBlk.tx[2])
    /\ CalculateTotalInput(pbBlk.tx[2]) < CalculateTotalOutput(pbBlk.tx[2])
    /\ \E k \in DOMAIN pbOut.transactions :
          /\ pbOut.transactions[k].txHash = pbBlk.tx[2].txid
          /\ pbOut.transactions[k].txFee = 0

(***************************************************************************)
(* Claims about the failover coordinator.                                  *)
(***************************************************************************)
\* C15: one call of ExecuteWithRetry invokes the operation at most
\* maxRetries + 1 times, whatever the operation returns and whatever the
\* health of the providers.
C15_AtMostMaxRetriesPlusOne ==
    \A c \in Calls : fAttempts[c] <= MaxRetries + 1

\* A call used all its attempts on provider faults and returned the last
\* error.
C15_Witness ==
    \E c \in Calls :
        /\ fpc[c] = "returned"
        /\ fAttempts[c] = MaxRetries + 1
        /\ Classify(fRet[c]) = "fault"

\* C16 (as stated): an attempt never selects a provider that was
\* blacklisted and whose cooldown has not elapsed, whatever the interleaving
\* of the health updates of the calls in progress; a provider leaves the
\* blacklist only when its cooldown elapses, and then at unhealthy.
C16_BlacklistedNeverSelected ==
    /\ [][\A c \in Calls :
            (fpc[c] = "select" /\ fpc'[c] = "inflight") =>
                /\ provState[fProv'[c]] # StateBlacklisted
                /\ cooldown[fProv'[c]] = 0]_vars
    /\ [][\A p \in Providers :
            (provState[p] = StateBlacklisted /\ provState'[p] # StateBlacklisted) =>
                /\ cooldown[p] = 1 /\ cooldown'[p] = 0
                /\ provState'[p] = StateUnhealthy]_vars

\* C17: when the operation returns an error that is not a provider fault (an
\* RPC error of method-not-found / not-supported meaning, or the caller's
\* context error), the call returns that error at once: no further attempt,
\* and the health of every provider as it was.
C17_NotAFaultReturnsAtOnce ==
    [][\A c \in Calls : \A err \in OpErrors :
          (Classify(err) = "notAFault" /\ EwrOutcome(c, err)) =>
              /\ fpc'[c] = "returned"
              /\ fRet'[c] = err
              /\ fAttempts' = fAttempts
              /\ provState' = provState
              /\ cooldown' = cooldown]_vars

\* A call returned the context error of its first attempt, with retries
\* left, and its provider is still degraded.
C17_Witness ==
    \E c \in Calls :
        /\ fpc[c] = "returned"
        /\ fRet[c].kind = "contextError"
        /\ fAttempts[c] = 1 /\ MaxRetries >= 1
        /\ provState[fProv[c]] = StateDegraded

(***************************************************************************)
(* Further claims about ExtractAddresses and ExtractTransfers.             *)
(***************************************************************************)
\* The sequence s without its empty strings, order kept.
RECURSIVE NonEmptyOf(_)
NonEmptyOf(s) ==
    IF s = <<>> THEN <<>>
    ELSE (IF Head(s) = "" THEN <<>> ELSE <<Head(s)>>) \o NonEmptyOf(Tail(s))

\* C18 (as stated): ExtractAddresses returns spk.address followed by the
\* entries of spk.addresses in their order with every empty string skipped,
\* so its result holds no empty string and no transfer has an empty
\* toAddress.
C18_NoEmptyAddress ==
    txPc = "done" =>
        /\ \A i \in DOMAIN tx.vout :
              LET spk == tx.vout[i].scriptPubKey IN
              /\ ExtractAddresses(spk) = NonEmptyOf(<<spk.address>> \o spk.addresses)
              /\ "" \notin Range(ExtractAddresses(spk))
        /\ \A k \in DOMAIN transfers : transfers[k].toAddress # ""

(***************************************************************************)
(* Claim about the cancellation of EnrichBlockWithPrevOuts.                *)
(***************************************************************************)
\* C19 (as stated): once the context given to EnrichBlockWithPrevOuts is
\* cancelled, a task that has not yet acquired the semaphore starts no
\* getrawtransaction call, and a running task starts none for its remaining
\* vins.
C19_CancelAbortsEnrichment ==
    [][enrCtxDone =>
          \A i \in Tasks :
              /\ ~(tpc[i] = "acquire" /\ tpc'[i] = "rpc")
              /\ ~(tpc[i] = "rpc" /\ tpc'[i] = "rpc" /\ tj'[i] # tj[i])]_vars

(***************************************************************************)
(* Claim about the order of the transfers of one transaction.              *)
(***************************************************************************)
\* The to-addresses of the transfers of ts that carry a non-zero fee.
FeeAddresses(ts) == { ts[k].toAddress : k \in { n \in DOMAIN ts : ts[n].txFee # 0 } }

\* C20 (as stated): two runs of ExtractTransfers on the same transaction with
\* the same fee emit the same sequence of transfers, and attach the fee to
\* the same to-address.
C20_ExtractTransfersDeterministic ==
    pbPc = "again" =>
        /\ pbAgain.transactions = pbOut.transactions
        /\ FeeAddresses(pbAgain.transactions) = FeeAddresses(pbOut.transactions)

(***************************************************************************)
(* Claims about the order of the RPC calls of one attempt.                 *)
(***************************************************************************)
\* The positions in the log of the getblock calls at the given verbosity.
GetBlockCallsAt(verbosity) ==
    { k \in DOMAIN rpcLog :
        rpcLog[k].method = "getblock" /\ rpcLog[k].verbosity = verbosity }

\* C21 (as stated): in one attempt no getblock is issued when getblockhash
\* failed; getblock at verbosity 2 is issued only after getblock at
\* verbosity 3 failed, never after it succeeded; and when the verbosity-3
\* call and the verbosity-2 call issued on its failure both fail, the attempt
\* returns the error of that verbosity-2 call.
C21_CallsOrderedLastErrorReturned ==
    gbPc = "done" =>
        /\ rpcLog[1].method = "getblockhash"
        /\ rpcLog[1].outcome # "ok" => Len(rpcLog) = 1
        /\ \A k \in GetBlockCallsAt(2) :
              /\ \E j \in GetBlockCallsAt(3) : j < k /\ rpcLog[j].outcome # "ok"
              /\ \A j \in GetBlockCallsAt(3) : rpcLog[j].outcome # "ok"
        /\ GetBlockCallsAt(2) # {} =>
              LET k == CHOOSE i \in GetBlockCallsAt(2) :
                           \A n \in GetBlockCallsAt(2) : i <= n
              IN  rpcLog[k].outcome # "ok" => opRet.kind = rpcLog[k].outcome

(***************************************************************************)
(* Further claims about GetBlocksByNumbers.                                *)
(***************************************************************************)
\* The GetBlock calls in flight.
GetBlockCallsInFlight == Cardinality({ w \in Workers : wpc[w] = "inflight" })

\* C22 (amended): at any time at most min(len(nums), concurrency) GetBlock
\* calls are in flight when the configured concurrency is positive, and at
\* most len(nums) when it is zero (no cap configured).
C22_InFlightBoundedByWorkers ==
    GetBlockCallsInFlight <=
        IF concurrency > 0
        THEN (IF Len(nums) < concurrency THEN Len(nums) ELSE concurrency)
        ELSE Len(nums)

\* Three heights under a concurrency of two: two calls in flight while the
\* third height waits in the channel.
C22_Witness ==
    /\ concurrency = 2 /\ Len(nums) = 3
    /\ GetBlockCallsInFlight = 2
    /\ jobs # <<>>

\* C22 (as stated): at most min(len(nums), concurrency) GetBlock calls are in
\* flight, for every value of the configured concurrency.
C22_InFlightBoundedByMin ==
    GetBlockCallsInFlight <=
        IF Len(nums) < concurrency THEN Len(nums) ELSE concurrency

(***************************************************************************)
(* Further claims about EnrichBlockWithPrevOuts.                           *)
(***************************************************************************)
\* The block as it was handed to EnrichBlockWithPrevOuts (the blocks of
\* EnrichBlocks differ in their transaction ids).
OriginalBlock ==
    CHOOSE b \in EnrichBlocks :
        /\ b.isNil = block.isNil
        /\ Len(b.tx) = Len(block.tx)
        /\ \A i \in DOMAIN b.tx : b.tx[i].txid = block.tx[i].txid

\* The transactions the loop over block.Tx starts a task for.
Scheduled ==
    { i \in DOMAIN OriginalBlock.tx :
        ~IsCoinbase(OriginalBlock.tx[i]) /\ ~HasPrevOutData(OriginalBlock.tx[i]) }

\* C23: on a non-nil block EnrichBlockWithPrevOuts returns nil whatever
\* lookups fail; a vin whose lookup failed (RPC error, or index past the
\* outputs of the previous transaction) keeps prevOut unset, and at the
\* return every other vin to look up of every scheduled transaction, in the
\* same transaction or in another, has been looked up all the same.
C23_LookupFailuresNeverFatal ==
    /\ \A f \in lookupFailed : block.tx[f[1]].vin[f[2]].prevOut = NoPrevOut
    /\ (enrPc = "returned" /\ ~block.isNil) =>
          /\ enrRet = "nil"
          /\ \A i \in Scheduled : \A j \in DOMAIN block.tx[i].vin :
                NeedsLookup(block.tx[i].vin[j]) =>
                    \/ <<i, j>> \in lookupFailed
                    \/ /\ block.tx[i].vin[j].prevOut # NoPrevOut
                       /\ block.tx[i].vin[j].prevOut
                            = WithPrevOut(OriginalBlock.tx[i].vin[j],
                                          PrevTx(block.tx[i].vin[j].txid)).prevOut

\* The call returned nil after the first lookup of a transaction failed on
\* an RPC error and its second on an index past the outputs, while a vin of
\* a later transaction got its prevOut.
C23_Witness ==
    /\ enrPc = "returned" /\ enrRet = "nil"
    /\ Len(block.tx) = 4
    /\ <<2, 1>> \in lookupFailed /\ <<2, 2>> \in lookupFailed
    /\ block.tx[4].vin[3].prevOut # NoPrevOut

\* C24: EnrichBlockWithPrevOuts starts a task for exactly the non-coinbase
\* transactions without any prevOut, and writes nothing but the prevOut of
\* their vins: the other transactions, every txid and vout, and the txid,
\* vout and coinbase fields of every vin stay as they were, and a prevOut
\* that was present stays as it was.
C24_OnlyPrevOutOfScheduledWritten ==
    ~block.isNil =>
        LET orig == OriginalBlock
            sched == { i \in DOMAIN orig.tx :
                         ~IsCoinbase(orig.tx[i]) /\ ~HasPrevOutData(orig.tx[i]) }
        IN  /\ sched = Scheduled
            /\ \A i \in Tasks : tpc[i] # "none" => i \in sched
            /\ enrI > Len(block.tx) => \A i \in sched : tpc[i] # "none"
            /\ \A i \in DOMAIN block.tx :
                  /\ i \notin sched => block.tx[i] = orig.tx[i]
                  /\ block.tx[i].txid = orig.tx[i].txid
                  /\ block.tx[i].vout = orig.tx[i].vout
                  /\ Len(block.tx[i].vin) = Len(orig.tx[i].vin)
                  /\ \A j \in DOMAIN block.tx[i].vin :
                        LET new == block.tx[i].vin[j]
                            old == orig.tx[i].vin[j]
                        IN  /\ new.txid = old.txid
                            /\ new.vout = old.vout
                            /\ new.coinbase = old.coinbase
                            /\ old.prevOut # NoPrevOut => new.prevOut = old.prevOut

\* The call returned on the mixed block: the transaction that came with a
\* prevOut is as it was, its vin without prevOut included, and a vin of a
\* scheduled transaction got its prevOut.
C24_Witness ==
    /\ enrPc = "returned" /\ enrRet = "nil"
    /\ Len(block.tx) = 4
    /\ block.tx[3] = MixedBlock.tx[3]
    /\ block.tx[3].vin[2].prevOut = NoPrevOut
    /\ block.tx[2].vin[1].prevOut # NoPrevOut

\* C25: no two tasks write the same vin: a task is started at most once per
\* transaction index (by the loop, at its current index), and every write to
\* the block changes one vin only, the vin that a running task of that very
\* transaction is looking up.
C25_TasksWriteDisjointVins ==
    /\ [][\A i \in Tasks :
            (tpc[i] # "acquire" /\ tpc'[i] = "acquire") =>
                (tpc[i] = "none" /\ i = enrI)]_vars
    /\ [][block' # block =>
            \E i \in Tasks :
                /\ tpc[i] = "rpc"
                /\ \A k \in DOMAIN block.tx : \A j \in DOMAIN block.tx[k].vin :
                      block'.tx[k].vin[j] # block.tx[k].vin[j]
                          => (k = i /\ j = tj[i])]_vars

\* Three tasks are in their lookups at once, on three transactions, after a
\* vin of one of them was written.
C25_Witness ==
    /\ Cardinality({ i \in Tasks : tpc[i] = "rpc" }) = 3
    /\ \E i \in Tasks :
          /\ tpc[i] = "rpc" /\ tj[i] = 2
          /\ block.tx[i].vin[1].prevOut # NoPrevOut

(***************************************************************************)
(* Claims about the sender and the fallback of ExtractTransfers.           *)
(***************************************************************************)
\* The distinct addresses of the prevOuts of vins, in order of first
\* occurrence; an empty string is not an address.
RECURSIVE DistinctPrevOutAddresses(_, _)
DistinctPrevOutAddresses(vins, acc) ==
    IF vins = <<>> THEN acc
    ELSE LET vin == Head(vins) IN
         DistinctPrevOutAddresses(Tail(vins),
            IF vin.coinbase # "" \/ vin.prevOut = NoPrevOut THEN acc
            ELSE AppendUnique(acc,
                    NonEmptyOf(<<vin.prevOut[1].scriptPubKey.address>>
                                 \o vin.prevOut[1].scriptPubKey.addresses)))

\* C26 (as stated): for a non-coinbase transaction with N >= 1 input
\* addresses, the distinct addresses of the vin prevOuts in order of first
\* occurrence, every transfer has the same fromAddress: the first input
\* address when N = 1, "<first>+<N-1>_more" when N > 1.
C26_CompositeFromAddress ==
    LET inputAddresses == DistinctPrevOutAddresses(tx.vin, <<>>)
        N == Len(inputAddresses)
    IN  (txPc = "done" /\ ~IsCoinbase(tx) /\ N >= 1) =>
            \A k \in DOMAIN transfers :
                transfers[k].fromAddress =
                    IF N = 1 THEN inputAddresses[1]
                    ELSE inputAddresses[1] \o "+" \o ToString(N - 1) \o "_more"

\* The addresses of the outputs of tx that have value > 0.
OutputAddresses ==
    UNION { Range(ExtractAddresses(tx.vout[i].scriptPubKey)) :
                i \in { j \in DOMAIN tx.vout : tx.vout[j].value > 0 } }

\* C27 (as stated): for a non-coinbase transaction with no resolvable input
\* address ExtractTransfers emits exactly one transfer per distinct output
\* address, each with fromAddress "" and type transfer; the fee is on the
\* first emitted transfer only when f > 0, and for f <= 0 every transfer has
\* txFee = 0.
C27_FallbackTransfersFeeOnlyIfPositive ==
    (txPc = "done" /\ ~IsCoinbase(tx) /\ ExtractInputAddresses(tx) = <<>>) =>
        /\ { transfers[k].toAddress : k \in DOMAIN transfers } = OutputAddresses
        /\ Len(transfers) = Cardinality(OutputAddresses)
        /\ \A k \in DOMAIN transfers :
              /\ transfers[k].fromAddress = ""
              /\ transfers[k].type = TxnTypeTransfer
              /\ transfers[k].txFee = IF k = 1 /\ fee > 0 THEN fee ELSE 0

(***************************************************************************)
(* Claims about GetBlocks.                                                 *)
(***************************************************************************)
\* The heights from, from+1, ..., to.
Heights(from, to) == [k \in 1 .. (to - from + 1) |-> from + k - 1]

IsPrefix(s, t) == Len(s) <= Len(t) /\ \A k \in DOMAIN s : s[k] = t[k]

\* C28 (as stated): for every from <= to of the whole unsigned range,
\* including the largest word, GetBlocks builds exactly the heights from,
\* from+1, ..., to, with no wrap-around of the loop counter or of the
\* capacity, ends the construction and hands exactly that list to
\* GetBlocksByNumbers; for to < from it returns the "invalid range" error
\* and fetches nothing.
C28_GetBlocksBuildsExactRange ==
    /\ (gbsFrom <= gbsTo) =>
          /\ gbsPc \in {"call", "loop", "handed"}
          /\ gbsPc \in {"loop", "handed"} =>
                /\ gbsCap = gbsTo - gbsFrom + 1
                /\ IsPrefix(gbsNums, Heights(gbsFrom, gbsTo))
          /\ gbsPc = "handed" => gbsNums = Heights(gbsFrom, gbsTo)
    /\ (gbsTo < gbsFrom) => gbsPc \in {"call", "error"} /\ gbsNums = <<>>

(***************************************************************************)
(* Claims about the dispatch of the slots of GetBlocksByNumbers.           *)
(***************************************************************************)
\* Where index i of nums is: not yet sent, in the channel, held by a worker
\* that calls GetBlock for it, or written to its slot.
NotYetSent(i) == IF i >= prodI THEN 1 ELSE 0

InChannel(i) == Cardinality({ k \in DOMAIN jobs : jobs[k].index = i })

Holders(i) == { w \in Workers : wpc[w] \in {"call", "inflight"} /\ wjob[w].index = i }

Written(i) == IF blocks[i] # ZeroBlockResult THEN 1 ELSE 0

EachIndexInOnePlace ==
    (mainPc \in {"wait", "returned"} /\ nums # <<>> /\ ~ctxDone) =>
        /\ \A i \in DOMAIN nums :
              NotYetSent(i) + InChannel(i) + Cardinality(Holders(i)) + Written(i) = 1
        /\ \A k \in DOMAIN jobs : jobs[k].num = nums[jobs[k].index]
        /\ \A i \in DOMAIN nums : \A w \in Holders(i) : wjob[w].num = nums[i]

\* A step that changes the result slice writes one slot, empty until then,
\* and the slot is the one of the only worker whose GetBlock call is for it.
SlotWrittenByItsWorker ==
    (blocks # <<>> /\ blocks' # blocks /\ ~ctxDone) =>
        \E i \in DOMAIN blocks :
            /\ blocks[i] = ZeroBlockResult
            /\ blocks'[i] # ZeroBlockResult
            /\ \A k \in DOMAIN blocks \ {i} : blocks'[k] = blocks[k]
            /\ \E w \in Workers :
                  /\ Holders(i) = {w}
                  /\ wpc[w] = "inflight" /\ wpc'[w] = "range"

ReadAfterAllWorkers ==
    (mainPc = "returned" /\ nums # <<>> /\ ~ctxDone) =>
        /\ \A w \in Workers : wpc[w] = "exit"
        /\ \A i \in DOMAIN nums : Written(i) = 1 /\ blocks[i].Number = nums[i]
        /\ ret.blocks = blocks

\* C29: in a run of GetBlocksByNumbers without cancellation every index of
\* nums is dispatched exactly once and taken by exactly one worker: GetBlock
\* is called once per slot, each slot is written by a single worker, and
\* the caller reads no slot before all workers have finished.
C29_EachSlotDispatchedOnce ==
    /\ [](EachIndexInOnePlace /\ ReadAfterAllWorkers)
    /\ [][SlotWrittenByItsWorker]_vars

\* Three heights fetched by two workers, all slots written, call returned.
C29_Witness ==
    /\ mainPc = "returned" /\ ~ctxDone
    /\ Len(nums) = 3 /\ Cardinality(Workers) = 2
    /\ handedBeforeCancel = {1, 2, 3}
    /\ \A i \in DOMAIN nums : blocks[i] # ZeroBlockResult

(***************************************************************************)
(* Claims about the pair GetBlock returns and the slot made of it.         *)
(***************************************************************************)
\* The BlockResult a worker of GetBlocksByNumbers stores for what GetBlock
\* returned: Error is set when err != nil.
WorkerSlot ==
    BlockResult(gbNumber, gRet.block,
                IF gRet.err # NoError
                THEN <<[ErrorType |-> "unknown", Message |-> gRet.err]>>
                ELSE NilError)

\* C30: GetBlock returns either a block and a nil error or a nil block and
\* an error, never both nil nor both set, also when an earlier attempt of
\* the fetch failed and a later one succeeded; so the BlockResult stored for
\* it has exactly one of Block and Error non-nil.
C30_ExactlyOneOfBlockAndError ==
    gPc = "returned" =>
        /\ (gRet.block = NilResult) <=> (gRet.err # NoError)
        /\ (WorkerSlot.Block # NilBlock) <=> (WorkerSlot.Error = NilError)

\* GetBlock returned a block after a first fetch attempt that failed and a
\* second that succeeded.
C30_Witness ==
    /\ gPc = "returned"
    /\ gRet.err = NoError /\ gRet.block # NilResult
    /\ WorkerSlot.Error = NilError
    /\ fAttempts[GetBlockCall] >= 2
    /\ gbBlk # <<>> /\ BlockHasPrevOutData(gbBlk[1])

(***************************************************************************)
(* Claims about the address codec.                                         *)
(***************************************************************************)
\* C31 (as stated): DetectAddressType and IsValidAddress agree: for every
\* address string and network flag DetectAddressType returns a variant
\* other than Unknown exactly when IsValidAddress returns true; a Base58
\* string of 25 decoded bytes with an accepted version byte and a wrong
\* checksum, and a Bech32 string with a wrong HRP, are classified Unknown.
C31_DetectAgreesWithIsValid ==
    (adValidPc = "done" /\ adTypePc = "done") =>
        ((adType # AddressTypeUnknown) <=> adValid)

====
